---- MODULE Spec2Model ----
(***************************************************************************)
(* Model of the SPDZ client proxy core: the length-prefixed frame          *)
(* reassembler (spdzDataConversion.extractPayloadFromBuffer and            *)
(* SpdzServerData), the socket registry (spdzSockets) and the session      *)
(* interface (spdz_interface/index.js).                                    *)
(*                                                                         *)
(* Buffers are sequences of bytes (0..255).  A call that throws is a       *)
(* result with threw = TRUE; the state kept is the state the object had    *)
(* when the exception left it.                                             *)
(***************************************************************************)
EXTENDS Integers, Sequences, FiniteSets, TLC

VARIABLES
  spdzConnections,   \* spdzSockets: the object mapping a clientId to its registered socket
  spdzBufferedData,  \* spdz_interface: the object mapping a clientId to its SpdzServerData
  sock,              \* every net.Socket created so far: its clientId and its state
  highestClientId,   \* spdz_interface: the counter behind generateClientId
  nData,             \* number of 'data' events delivered so far
  frames,            \* the payloads of the frames the engine writes on one connection
  pos,               \* number of bytes of that stream handed to storeChunk so far
  data,              \* the SpdzServerData object reading that stream
  pattern,           \* history: how the chunks so far cut the stream
  popped,            \* history: the messages popServerTransmission returned so far
  rest,              \* rest_api: the consume-data request in progress and its history
  boot,              \* spdz_bootstrap: one runSPDZFunction call, its scripts and its promise
  polls,             \* rest_api: the pending re-checks of overlapping consume-data requests
  ws,                \* socket_api: the client web sockets and what was emitted to them
  input,             \* the argument of a spdzDataConversion call
  ret                \* what the last call returned or the last 'data' handler did

vars == <<spdzConnections, spdzBufferedData, sock, highestClientId, nData,
          frames, pos, data, pattern, popped, rest, boot, polls, ws, input, ret>>

connVars == <<spdzConnections, spdzBufferedData, sock, highestClientId, nData>>
streamVars == <<frames, pos, data, pattern, popped>>

\* ------------------------------------------------------------------ bounds
MaxFrames == 2       \* frames in one stream
MaxPayload == 2      \* payload bytes of one frame
MaxSockets == 3      \* net.Socket objects created in one run
MaxOtherSetups == 1  \* setupConnection calls for each id other than id 1
MaxData == 1         \* 'data' events in one run
MaxWrites == 2       \* records written to the engine in one run
MaxGenerated == 1    \* session ids generated in one run
MaxRequests == 1     \* consume-data requests in one run
MaxList == 2         \* elements of a list handed to a conversion
MaxTimers == 2       \* consume-data timers pending at once

PayloadBytes == {0, 7}
Ids == {1, 2}
Socks == 1..MaxSockets

\* ------------------------------------------------------------- byte helpers
Min(a, b) == IF a < b THEN a ELSE b

\* Buffer.slice(start, end): end is exclusive and clamped to the length.
Slice(buf, start, end) == SubSeq(buf, start + 1, Min(end, Len(buf)))

IsPrefix(s, t) == Len(s) <= Len(t) /\ SubSeq(t, 1, Len(s)) = s

\* buf.readUInt32LE(0)
readUInt32LE(buf) == buf[1] + 256 * buf[2] + 65536 * buf[3] + 16777216 * buf[4]

calculatePayloadLength_ZeroWhenShort(buf) ==
  IF Len(buf) < 4
    THEN [threw |-> FALSE, value |-> 0]
    ELSE [threw |-> FALSE, value |-> readUInt32LE(buf)]

\* calculatePayloadLength: throws when fewer than 4 bytes, else the LE value.
calculatePayloadLength(buf) ==
  IF Len(buf) < 4
    THEN [threw |-> TRUE, value |-> 0]
    ELSE [threw |-> FALSE, value |-> readUInt32LE(buf)]

\* payloadLengthFromHeader(buf)
payloadLengthFromHeader(buf) == calculatePayloadLength(buf)

generatePayloadHeader_BigEndian(payloadByteSize) ==
  << (payloadByteSize \div 16777216) % 256, (payloadByteSize \div 65536) % 256,
     (payloadByteSize \div 256) % 256, payloadByteSize % 256 >>

\* generatePayloadHeader: Buffer.alloc(4, 0) then writeInt32LE(payloadByteSize).
generatePayloadHeader(payloadByteSize) ==
  LET u == payloadByteSize   \* \div floors and % is non-negative: two's complement bytes
  IN  << u % 256, (u \div 256) % 256, (u \div 65536) % 256, (u \div 16777216) % 256 >>

extractPayloadFromBuffer_NoSkip(socketChunk, expectedBytes, remainingChunk) ==
  LET buf == IF Len(remainingChunk) > 0 THEN remainingChunk \o socketChunk ELSE socketChunk
      newFrame == expectedBytes = 0
      hdr == calculatePayloadLength(buf)
  IN  IF newFrame /\ hdr.threw
        THEN [threw |-> TRUE, payload |-> << >>, expectedBytes |-> expectedBytes,
              remainingChunk |-> remainingChunk]
        ELSE LET exp == IF newFrame THEN hdr.value ELSE expectedBytes
                 curPosn == IF newFrame THEN 4 ELSE 0
                 payload == Slice(buf, 0, exp)
             IN  [threw |-> FALSE,
                  payload |-> payload,
                  expectedBytes |-> IF Len(payload) = exp THEN 0 ELSE exp,
                  remainingChunk |-> Slice(buf, curPosn + exp, Len(buf))]

\* extractPayloadFromBuffer(socketChunk, expectedBytes, remainingChunk)
extractPayloadFromBuffer(socketChunk, expectedBytes, remainingChunk) ==
  LET buf == IF Len(remainingChunk) > 0 THEN remainingChunk \o socketChunk ELSE socketChunk
      newFrame == expectedBytes = 0
      hdr == calculatePayloadLength(buf)
  IN  IF newFrame /\ hdr.threw
        THEN [threw |-> TRUE, payload |-> << >>, expectedBytes |-> expectedBytes,
              remainingChunk |-> remainingChunk]
        ELSE LET exp == IF newFrame THEN hdr.value ELSE expectedBytes
                 curPosn == IF newFrame THEN 4 ELSE 0
                 payload == Slice(buf, curPosn, curPosn + exp)
             IN  [threw |-> FALSE,
                  payload |-> payload,
                  expectedBytes |-> IF Len(payload) = exp THEN 0 ELSE exp,
                  remainingChunk |-> Slice(buf, curPosn + exp, Len(buf))]

\* ------------------------------------------------- records sent to the engine
\* buf.writeInt32LE(v): the four two's complement bytes of v, lowest first.
writeInt32LE(v) == << v % 256, (v \div 256) % 256, (v \div 65536) % 256, (v \div 16777216) % 256 >>

\* src.copy(target, at): overwrite target from offset at with as much of src as fits.
BufCopy(target, src, at) ==
  LET n == Min(Len(src), Len(target) - at)
  IN  IF n <= 0
        THEN target
        ELSE SubSeq(target, 1, at) \o SubSeq(src, 1, n)
               \o SubSeq(target, at + n + 1, Len(target))

\* Buffer.alloc(n, 0)
RECURSIVE Zeros(_)
Zeros(n) == IF n <= 0 THEN << >> ELSE <<0>> \o Zeros(n - 1)

\* buf.reverse()
RECURSIVE Reverse(_)
Reverse(buf) == IF buf = << >> THEN << >> ELSE Reverse(Tail(buf)) \o <<Head(buf)>>

\* int32ToSpdz(int32List): header of 4 * n, then each integer little endian.
RECURSIVE int32Fill(_, _, _)
int32Fill(buf, int32List, index) ==
  IF index >= Len(int32List)
    THEN buf
    ELSE int32Fill(BufCopy(buf, writeInt32LE(int32List[index + 1]), 4 + index * 4),
                   int32List, index + 1)

int32ToSpdz(int32List) ==
  LET payloadSize == Len(int32List) * 4
  IN  int32Fill(BufCopy(Zeros(payloadSize + 4), generatePayloadHeader(payloadSize), 0),
                int32List, 0)

\* Buffer.from(str, 'base64'), str given as the 6-bit values of its characters
\* (padding left out): four characters give three bytes, a final two give one
\* byte and a final three give two.
RECURSIVE base64Decode(_)
base64Decode(s) ==
  IF Len(s) < 2 THEN << >>
  ELSE IF Len(s) = 2 THEN << s[1] * 4 + s[2] \div 16 >>
  ELSE IF Len(s) = 3 THEN << s[1] * 4 + s[2] \div 16, (s[2] % 16) * 16 + s[3] \div 4 >>
  ELSE << s[1] * 4 + s[2] \div 16, (s[2] % 16) * 16 + s[3] \div 4, (s[3] % 4) * 64 + s[4] >>
         \o base64Decode(SubSeq(s, 5, Len(s)))

\* base64ToSpdz(base64InputList): header of 16 * n, then each decoded value
\* reversed (big endian to little endian) at offset 4 + 16 * index.
RECURSIVE base64Fill(_, _, _)
base64Fill(buf, base64InputList, index) ==
  IF index >= Len(base64InputList)
    THEN buf
    ELSE base64Fill(BufCopy(buf, Reverse(base64Decode(base64InputList[index + 1])),
                            4 + index * 16),
                    base64InputList, index + 1)

base64ToSpdz(base64InputList) ==
  LET payloadSize == Len(base64InputList) * 16
  IN  base64Fill(BufCopy(Zeros(payloadSize + 4), generatePayloadHeader(payloadSize), 0),
                 base64InputList, 0)

\* buf.toString('base64'), as the 6-bit values of its characters (padding
\* left out): three bytes give four characters, a final one gives two and a
\* final two give three.
RECURSIVE base64Encode(_)
base64Encode(b) ==
  IF b = << >> THEN << >>
  ELSE IF Len(b) = 1 THEN << b[1] \div 4, (b[1] % 4) * 16 >>
  ELSE IF Len(b) = 2
    THEN << b[1] \div 4, (b[1] % 4) * 16 + b[2] \div 16, (b[2] % 16) * 4 >>
  ELSE << b[1] \div 4, (b[1] % 4) * 16 + b[2] \div 16,
          (b[2] % 16) * 4 + b[3] \div 64, b[3] % 64 >>
         \o base64Encode(SubSeq(b, 4, Len(b)))

binaryToBase64_NoReverse(binaryList) ==
  [i \in 1..Len(binaryList) |-> base64Encode(binaryList[i])]

\* binaryToBase64(binaryList): each buffer reversed, then base64 encoded.
binaryToBase64(binaryList) ==
  [i \in 1..Len(binaryList) |-> base64Encode(Reverse(binaryList[i]))]

\* Buffer.from(hex, 'hex') for a string given as the values of its
\* characters, 0..15 for the hex digits and 16 for any other character:
\* decoding stops at the first pair that is not two hex digits.
RECURSIVE hexDecode(_)
hexDecode(h) ==
  IF Len(h) < 2 THEN << >>
  ELSE IF h[1] > 15 \/ h[2] > 15 THEN << >>
  ELSE << h[1] * 16 + h[2] >> \o hexDecode(SubSeq(h, 3, Len(h)))

\* hexPublicKeyToBuffer(value): asserts 64 hex digits, then the header of 32
\* and the key as 8 integers, each 4 bytes reversed to little endian.
RECURSIVE hexKeyFill(_, _, _)
hexKeyFill(buf, hexKey, i) ==
  IF i >= 8
    THEN buf
    ELSE hexKeyFill(BufCopy(buf, Reverse(hexDecode(SubSeq(hexKey, i * 8 + 1, (i + 1) * 8))),
                            i * 4),
                    hexKey, i + 1)

hexPublicKeyToBuffer_WholeReversed(value) ==
  IF Len(value) # 64
    THEN [threw |-> TRUE, buf |-> << >>]
    ELSE [threw |-> FALSE,
          buf |-> generatePayloadHeader(32) \o Reverse(hexDecode(value))]

hexPublicKeyToBuffer(value) ==
  IF Len(value) # 64
    THEN [threw |-> TRUE, buf |-> << >>]
    ELSE [threw |-> FALSE,
          buf |-> BufCopy(BufCopy(Zeros(36), generatePayloadHeader(32), 0),
                          hexKeyFill(Zeros(32), value, 0), 4)]

\* ------------------------------------------------------------ SpdzServerData
\* new SpdzServerData(clientId).  listeners is the number of listeners of
\* 'message_from_spdz'; emitted counts the listener invocations made by emit;
\* seen records, for each invocation, the arguments the listener got and the
\* length of serverTransmission at that moment.
NewSpdzServerData(nListeners) ==
  [serverTransmission |-> << >>,
   expectedBytes |-> 0,
   incompleteTransmission |-> << >>,
   listeners |-> nListeners,
   emitted |-> 0,
   seen |-> << >>]

storeTransmission_EmitFirst(d, message) ==
  [d EXCEPT !.serverTransmission = Append(@, message),
            !.emitted = @ + d.listeners,
            !.seen = @ \o [i \in 1..d.listeners |->
                             [args |-> << >>, queued |-> Len(d.serverTransmission)]]]

storeTransmission_SkipEmpty(d, message) ==
  IF message = << >>
    THEN d
    ELSE LET q == Append(d.serverTransmission, message)
         IN  [d EXCEPT !.serverTransmission = q,
                       !.emitted = @ + d.listeners,
                       !.seen = @ \o [i \in 1..d.listeners |->
                                        [args |-> << >>, queued |-> Len(q)]]]

\* storeTransmission(message): push, then emit('message_from_spdz') with no
\* argument, which calls every listener in turn.
storeTransmission(d, message) ==
  LET q == Append(d.serverTransmission, message)
  IN  [d EXCEPT !.serverTransmission = q,
                !.emitted = @ + d.listeners,
                !.seen = @ \o [i \in 1..d.listeners |->
                                 [args |-> << >>, queued |-> Len(q)]]]

storeChunk_NoDrain(d, chunk) ==
  LET result == extractPayloadFromBuffer(chunk, d.expectedBytes, d.incompleteTransmission)
  IN  IF result.threw
        THEN [data |-> d, threw |-> TRUE]
        ELSE LET d1 == [d EXCEPT !.expectedBytes = result.expectedBytes]
             IN  IF result.expectedBytes = 0
                   THEN [data |-> [storeTransmission(d1, result.payload)
                                     EXCEPT !.incompleteTransmission = result.remainingChunk],
                         threw |-> FALSE]
                   ELSE [data |-> [d1 EXCEPT !.incompleteTransmission = result.payload],
                         threw |-> FALSE]

\* storeChunk(chunk); the result carries the object and whether the call threw.
RECURSIVE storeChunk(_, _)
storeChunk(d, chunk) ==
  LET result == extractPayloadFromBuffer(chunk, d.expectedBytes, d.incompleteTransmission)
  IN  IF result.threw
        THEN [data |-> d, threw |-> TRUE]
        ELSE LET d1 == [d EXCEPT !.expectedBytes = result.expectedBytes]
             IN  IF result.expectedBytes = 0
                   THEN LET d2 == [storeTransmission(d1, result.payload)
                                     EXCEPT !.incompleteTransmission = result.remainingChunk]
                        IN  IF Len(d2.incompleteTransmission) > 0
                              THEN storeChunk([d2 EXCEPT !.incompleteTransmission = << >>],
                                              d2.incompleteTransmission)
                              ELSE [data |-> d2, threw |-> FALSE]
                   ELSE [data |-> [d1 EXCEPT !.incompleteTransmission = result.payload],
                         threw |-> FALSE]

popServerTransmission_Newest(d) ==
  IF Len(d.serverTransmission) > 0
    THEN [isNull |-> FALSE,
          value |-> d.serverTransmission[Len(d.serverTransmission)],
          data |-> [d EXCEPT !.serverTransmission = SubSeq(@, 1, Len(@) - 1)]]
    ELSE [isNull |-> TRUE, value |-> << >>, data |-> d]

popServerTransmission_Peek(d) ==
  IF Len(d.serverTransmission) > 0
    THEN [isNull |-> FALSE, value |-> Head(d.serverTransmission), data |-> d]
    ELSE [isNull |-> TRUE, value |-> << >>, data |-> d]

\* popServerTransmission(): splice(0, 1)[0], or null (isNull, with no value).
popServerTransmission(d) ==
  IF Len(d.serverTransmission) > 0
    THEN [isNull |-> FALSE,
          value |-> Head(d.serverTransmission),
          data |-> [d EXCEPT !.serverTransmission = Tail(@)]]
    ELSE [isNull |-> TRUE, value |-> << >>, data |-> d]

\* ------------------------------------------------- the engine's byte stream
\* A payload repeats one byte value; payloads differ in length and in value.
Payloads == { [i \in 1..n |-> b] : n \in 0..MaxPayload, b \in PayloadBytes }
FrameSeqs == UNION { [1..n -> Payloads] : n \in 1..MaxFrames }

\* One frame on the wire: 4-byte little-endian length header, then the payload.
Frame(payload) == generatePayloadHeader(Len(payload)) \o payload

RECURSIVE Wire(_)
Wire(fs) == IF fs = << >> THEN << >> ELSE Frame(Head(fs)) \o Wire(Tail(fs))

stream == Wire(frames)

\* Offset in the stream of the end of frame i (0 for i = 0).
RECURSIVE FrameEnd(_)
FrameEnd(i) == IF i = 0 THEN 0 ELSE FrameEnd(i - 1) + 4 + Len(frames[i])

Boundaries == { FrameEnd(i) : i \in 0..Len(frames) }
InsideHeader(p) == \E i \in 1..Len(frames) : FrameEnd(i - 1) < p /\ p < FrameEnd(i - 1) + 4

\* What a step made visible: the call or event, its id, how it ended, the
\* value returned or written, the error it raised or rejected with, and how
\* often it invoked the session's onMessage and onClosed callbacks.
NoOp == [op |-> "none", id |-> 0, outcome |-> "none", value |-> << >>,
         err |-> "none", onMessage |-> 0, onClosed |-> 0]

Event(op, id, outcome) == [NoOp EXCEPT !.op = op, !.id = id, !.outcome = outcome]

InitPattern == [oneEach |-> TRUE, wholeFrames |-> TRUE, headerWhole |-> TRUE]

\* A JavaScript object used as a map is a function whose domain is its keys.
EmptyMap == [k \in {} |-> 0]
Has(m, k) == k \in DOMAIN m
Put(m, k, v) == [x \in (DOMAIN m) \cup {k} |-> IF x = k THEN v ELSE m[x]]
Delete(m, k) == [x \in (DOMAIN m) \ {k} |-> m[x]]
\* clientPublicKey: undefined, or a string of hex digits given by their values.
NoKey == [defined |-> FALSE, hex |-> << >>]
GoodKey == [defined |-> TRUE, hex |-> [i \in 1..64 |-> i % 16]]
ShortKey == [defined |-> TRUE, hex |-> <<10, 11, 12, 13>>]
ValidKeys == {NoKey, GoodKey}
Keys == ValidKeys \cup {ShortKey}

\* A net.Socket: the clientId and public key of the setupConnection call that
\* created it, whether that call was given its two optional callbacks, its
\* state, whether that call reset an older connection, where the engine is in
\* the frame it is writing, and the records written to it.  The states:
\* "connecting" until 'connect' or 'error'; "open"; "failed" after the 'error'
\* of a refused connect, "ended" after the engine closed its side and
\* "destroyed" after destroy() or a later 'error', all three until the
\* socket's 'close' event; "closed" after it.
FreeSock == [clientId |-> 0, state |-> "free", reset |-> FALSE, engine |-> "boundary",
             key |-> NoKey, spdzMessageCallBack |-> FALSE,
             notifySpdzConnectionClosed |-> FALSE, out |-> << >>]

\* The latest consume-data request (the n-th): the clientId and waitMs it came
\* with, whether its timer is pending ("waiting") or it is over ("done"), how
\* often it called getServerTransmission, how many messages those calls
\* removed, the status codes of the responses sent for it, and how many
\* exceptions left its handlers uncaught.  NoRequest: none has been made.
NoRequest == [n |-> 0, phase |-> "idle", id |-> 0, waitMs |-> 0, checks |-> 0,
              removed |-> 0, responses |-> << >>, uncaught |-> 0]

\* No spdzDataConversion call is being looked at.
NoInput == [kind |-> "none", value |-> << >>]

\* No consume-data timer pending; taken lists, for each id, the messages
\* consume-data responses have carried.
NoPolls == [timers |-> << >>, taken |-> [id \in Ids |-> << >>]]

\* Every client web socket is connected and has been sent nothing; sent
\* lists the spdz_message events emitted to each.
NoWs == [connected |-> [id \in Ids |-> TRUE], sent |-> [id \in Ids |-> << >>]]

\* No runSPDZFunction call yet.  launched lists the scripts exec started with
\* their parameters, exits the exit codes of those that closed, stderr the
\* number of stderr messages of the running script, settled what the
\* returned promise did.
NoBoot == [phase |-> "idle", name |-> [type |-> "undefined", chars |-> << >>],
           launched |-> << >>, exits |-> << >>, stderr |-> 0, settled |-> << >>]

IdleConn ==
  /\ spdzConnections = EmptyMap
  /\ spdzBufferedData = EmptyMap
  /\ sock = [s \in Socks |-> FreeSock]
  /\ highestClientId = 0
  /\ nData = 0
  /\ rest = NoRequest
  /\ boot = NoBoot
  /\ polls = NoPolls
  /\ ws = NoWs

\* A fresh SpdzServerData with one listener, about to read a stream of frames.
InitStream ==
  /\ IdleConn
  /\ frames \in FrameSeqs
  /\ pos = 0
  /\ data = NewSpdzServerData(1)
  /\ pattern = InitPattern
  /\ popped = << >>
  /\ input = NoInput
  /\ ret = NoOp

\* The transport hands the next k bytes of the stream to storeChunk.
Chunk(k) ==
  /\ k \in 1..(Len(stream) - pos)
  /\ LET r == storeChunk(data, SubSeq(stream, pos + 1, pos + k))
     IN  /\ data' = r.data
         /\ ret' = [Event("chunk", 0, IF r.threw THEN "FramingError" ELSE "ok")
                      EXCEPT !.onMessage = r.data.emitted - data.emitted]
  /\ pos' = pos + k
  /\ pattern' = [oneEach |-> pattern.oneEach
                               /\ \E i \in 1..Len(frames) :
                                     pos = FrameEnd(i - 1) /\ pos + k = FrameEnd(i),
                 wholeFrames |-> pattern.wholeFrames /\ pos + k \in Boundaries,
                 headerWhole |-> pattern.headerWhole /\ ~InsideHeader(pos + k)]
  /\ UNCHANGED <<frames, popped, connVars, rest, boot, polls, ws, input>>

\* The consumer calls popServerTransmission.
Pop ==
  /\ LET r == popServerTransmission(data)
     IN  /\ data' = r.data
         /\ popped' = IF r.isNull THEN popped ELSE Append(popped, r.value)
         /\ ret' = [Event("pop", 0, IF r.isNull THEN "null" ELSE "message")
                      EXCEPT !.value = r.value]
  /\ UNCHANGED <<frames, pos, pattern, connVars, rest, boot, polls, ws, input>>

NextStream == (\E k \in 1..(MaxFrames * (4 + MaxPayload)) : Chunk(k)) \/ Pop

SpecStream == InitStream /\ [][NextStream]_vars

\* ------------------------------------------------------------- spdzSockets
\* checkConnection(clientId): spdzConnections.hasOwnProperty(clientId)
checkConnection(conns, clientId) == Has(conns, clientId)

\* client.destroy(): an open socket is closed locally and its 'close' event
\* is emitted later; destroying a socket that is already on its way to
\* 'close' does nothing.
Destroy(sk, s) ==
  IF sk[s].state = "open" THEN [sk EXCEPT ![s].state = "destroyed"] ELSE sk

\* spdzSockets.closeConnection(clientId)
closeConnection(conns, sk, clientId) ==
  IF Has(conns, clientId)
    THEN [result |-> TRUE, sock |-> Destroy(sk, conns[clientId])]
    ELSE [result |-> FALSE, sock |-> sk]

\* spdzSockets.sendData(clientId, data), data being buf: write on the registered socket and
\* return what client.write returned (written: false once the stream has
\* highWaterMark bytes buffered); false when no socket is registered.  A
\* write on a socket that is no longer open puts nothing on the wire, and on
\* a socket the engine has ended it returns no true value.
sendData(conns, sk, clientId, buf, written) ==
  IF Has(conns, clientId)
    THEN [result |-> IF sk[conns[clientId]].state = "ended" THEN FALSE ELSE written,
          sock |-> IF sk[conns[clientId]].state = "open"
                     THEN [sk EXCEPT ![conns[clientId]].out = Append(@, buf)]
                     ELSE sk]
    ELSE [result |-> FALSE, sock |-> sk]

\* ---------------------------------------------------------- spdz_interface
closeConnectionByClient_DropsAll(conns, sk, bd, clientId) ==
  LET r == closeConnection(conns, sk, clientId)
  IN  [result |-> r.result,
       sock |-> r.sock,
       spdzBufferedData |-> IF Has(bd, clientId) THEN EmptyMap ELSE bd]

closeConnectionByClient_KeepsQueue(conns, sk, bd, clientId) ==
  LET r == closeConnection(conns, sk, clientId)
  IN  [result |-> r.result, sock |-> r.sock, spdzBufferedData |-> bd]

\* closeConnectionByClient(clientId): close the socket, then delete the
\* buffered data whether empty or not.
closeConnectionByClient(conns, sk, bd, clientId) ==
  LET r == closeConnection(conns, sk, clientId)
  IN  [result |-> r.result,
       sock |-> r.sock,
       spdzBufferedData |-> IF Has(bd, clientId) THEN Delete(bd, clientId) ELSE bd]

getServerTransmission_NullWhenMissing(bd, clientId) ==
  IF ~Has(bd, clientId)
    THEN [outcome |-> "null", value |-> << >>, spdzBufferedData |-> bd]
    ELSE LET r == popServerTransmission(bd[clientId])
         IN  [outcome |-> IF r.isNull THEN "null" ELSE "message",
              value |-> r.value,
              spdzBufferedData |-> [bd EXCEPT ![clientId] = r.data]]

\* getServerTransmission(clientId): throws when there is no buffer for the id.
getServerTransmission(bd, clientId) ==
  IF ~Has(bd, clientId)
    THEN [outcome |-> "LookupError", value |-> << >>, spdzBufferedData |-> bd]
    ELSE LET r == popServerTransmission(bd[clientId])
         IN  [outcome |-> IF r.isNull THEN "null" ELSE "message",
              value |-> r.value,
              spdzBufferedData |-> [bd EXCEPT ![clientId] = r.data]]

onData_Resurrect(bd, clientId, chunk) ==
  LET old == IF Has(bd, clientId) THEN bd[clientId] ELSE NewSpdzServerData(1)
      r == storeChunk(old, chunk)
  IN  [outcome |-> IF r.threw THEN "FramingError" ELSE "stored",
       onMessage |-> r.data.emitted - old.emitted,
       spdzBufferedData |-> Put(bd, clientId, r.data)]

\* socket.on('data', chunk => ...) registered by setupConnection for clientId.
onData(bd, clientId, chunk) ==
  IF Has(bd, clientId)
    THEN LET r == storeChunk(bd[clientId], chunk)
         IN  [outcome |-> IF r.threw THEN "FramingError" ELSE "stored",
              onMessage |-> r.data.emitted - bd[clientId].emitted,
              spdzBufferedData |-> [bd EXCEPT ![clientId] = r.data]]
    ELSE [outcome |-> "dropped", onMessage |-> 0, spdzBufferedData |-> bd]

Init ==
  /\ IdleConn
  /\ frames = << >>
  /\ pos = 0
  /\ data = NewSpdzServerData(1)
  /\ pattern = InitPattern
  /\ popped = << >>
  /\ input = NoInput
  /\ ret = NoOp

\* clientId when setupConnection is called without one.
Undefined == 0

\* The errors a failed connect may carry.
TransportErrors == {"ECONNREFUSED", "ETIMEDOUT"}

SetupLimit(id) == IF id = 1 THEN MaxSockets ELSE MaxOtherSetups

FreeSocks == { s \in Socks : sock[s].state = "free" }

\* The sockets created by the setupConnection calls for id, and the open ones.
SocksOf(id) == { s \in Socks : sock[s].state # "free" /\ sock[s].clientId = id }
OpenSocksOf(id) == { s \in SocksOf(id) : sock[s].state = "open" }

\* A closed socket: nothing of it matters any more.
Closed(sk, s) == [sk EXCEPT ![s].state = "closed", ![s].reset = FALSE,
                            ![s].engine = "boundary", ![s].key = NoKey,
                            ![s].spdzMessageCallBack = FALSE,
                            ![s].notifySpdzConnectionClosed = FALSE, ![s].out = << >>]

\* setupConnection(clientId, clientPublicKey, spdzMessageCallBack,
\* notifySpdzConnectionClosed), up to client.connect(): generate the id when
\* none is given, reset an existing connection, then create a socket and start
\* connecting.  The two callbacks are optional: TRUE when given.
SetupConnection(clientId, clientPublicKey, spdzMessageCallBack, notifySpdzConnectionClosed) ==
  /\ FreeSocks # {}
  /\ clientId = Undefined => highestClientId < MaxGenerated
  /\ LET id == IF clientId = Undefined THEN highestClientId + 1 ELSE clientId
         s == CHOOSE x \in FreeSocks : \A y \in FreeSocks : x <= y
         existed == checkConnection(spdzConnections, id)
         c == closeConnectionByClient(spdzConnections, sock, spdzBufferedData, id)
     IN  /\ Cardinality({ x \in Socks : sock[x].state # "free" /\ sock[x].clientId = id })
              < SetupLimit(id)
         /\ highestClientId' = IF clientId = Undefined THEN id ELSE highestClientId
         /\ sock' = [(IF existed THEN c.sock ELSE sock) EXCEPT
                       ![s] = [clientId |-> id, state |-> "connecting", reset |-> existed,
                              engine |-> "boundary", key |-> clientPublicKey,
                              spdzMessageCallBack |-> spdzMessageCallBack,
                              notifySpdzConnectionClosed |-> notifySpdzConnectionClosed,
                              out |-> << >>]]
         /\ spdzBufferedData' = IF existed THEN c.spdzBufferedData ELSE spdzBufferedData
  /\ ret' = NoOp
  /\ UNCHANGED <<spdzConnections, nData, streamVars, rest, boot, polls, ws, input>>

\* The 'message_from_spdz' listeners of the SpdzServerData that the connect
\* of socket s creates: one if spdzMessageCallBack was given, else none.
ListenersOf(s) == IF sock[s].spdzMessageCallBack THEN 1 ELSE 0

ConnectOk_KeyNotSent(s) ==
  /\ sock[s].state = "connecting"
  /\ LET id == sock[s].clientId
         key == sock[s].key
         record == hexPublicKeyToBuffer(key.hex)
     IN  /\ spdzConnections' = Put(spdzConnections, id, s)
         /\ spdzBufferedData' = Put(spdzBufferedData, id, NewSpdzServerData(ListenersOf(s)))
         /\ sock' = [sock EXCEPT ![s].state = "open"]
         /\ ret' = IF key.defined /\ record.threw
                     THEN [Event("connect", id, "rejected") EXCEPT !.err = "AssertionError"]
                     ELSE Event("connect", id, "resolved")
  /\ UNCHANGED <<highestClientId, nData, streamVars, rest, boot, polls, ws, input>>

\* 'connect' on socket s: register it, resolve, and run setupConnection's
\* then-handler: a new SpdzServerData, with the message listener if
\* spdzMessageCallBack was given, the 'data' and 'close' listeners, then the
\* public key record if a key was given; the key's assertion failing there
\* rejects the setup promise.
ConnectOk(s) ==
  /\ sock[s].state = "connecting"
  /\ LET id == sock[s].clientId
         key == sock[s].key
         conns == Put(spdzConnections, id, s)
         opened == [sock EXCEPT ![s].state = "open"]
         record == hexPublicKeyToBuffer(key.hex)
     IN  /\ spdzConnections' = conns
         /\ spdzBufferedData' = Put(spdzBufferedData, id, NewSpdzServerData(ListenersOf(s)))
         /\ sock' = IF key.defined /\ ~record.threw
                      THEN sendData(conns, opened, id, record.buf, TRUE).sock
                      ELSE opened
         /\ ret' = IF key.defined /\ record.threw
                     THEN [Event("connect", id, "rejected") EXCEPT !.err = "AssertionError"]
                     ELSE Event("connect", id, "resolved")
  /\ UNCHANGED <<highestClientId, nData, streamVars, rest, boot, polls, ws, input>>

ConnectError_CreatesData(s) ==
  /\ sock[s].state = "connecting"
  /\ sock' = [sock EXCEPT ![s].state = "failed"]
  /\ spdzBufferedData' = Put(spdzBufferedData, sock[s].clientId,
                             NewSpdzServerData(ListenersOf(s)))
  /\ \E error \in TransportErrors :
       ret' = [Event("connect", sock[s].clientId, "rejected") EXCEPT !.err = error]
  /\ UNCHANGED <<spdzConnections, highestClientId, nData, streamVars, rest, boot, polls, ws, input>>

\* The connect of socket s fails: 'error' rejects the setup promise with the
\* error and the on('error') listener logs.  Nothing is registered or
\* unregistered; the socket emits its 'close' later, as an event of its own.
ConnectError(s) ==
  /\ sock[s].state = "connecting"
  /\ sock' = [sock EXCEPT ![s].state = "failed"]
  /\ \E error \in TransportErrors :
       ret' = [Event("connect", sock[s].clientId, "rejected") EXCEPT !.err = error]
  /\ UNCHANGED <<spdzConnections, spdzBufferedData, highestClientId, nData, streamVars,
                 rest, boot, polls, ws, input>>

\* Why socket s is about to emit 'close'.
CloseCause(s) ==
  CASE sock[s].state = "destroyed" -> "local"
    [] sock[s].state = "ended" -> "engine"
    [] sock[s].state = "failed" -> "refused"

\* How often the 'close' of socket s calls notifySpdzConnectionClosed: once if
\* the socket had connected, which added the listener, and the callback was
\* given.
ClosedCalls(s) ==
  IF sock[s].state # "failed" /\ sock[s].notifySpdzConnectionClosed THEN 1 ELSE 0

CloseEvent_KeepsEntry(s) ==
  /\ sock[s].state \in {"destroyed", "ended", "failed"}
  /\ sock' = Closed(sock, s)
  /\ ret' = [Event("closed", sock[s].clientId, CloseCause(s))
               EXCEPT !.onClosed = ClosedCalls(s)]
  /\ UNCHANGED <<spdzConnections, spdzBufferedData, highestClientId, nData, streamVars,
                 rest, boot, polls, ws, input>>

\* 'close' on socket s, after destroy(), after an 'error' or after the engine
\* ended the connection: spdzSockets' listener deletes
\* spdzConnections[clientId], whichever socket is registered there; then the
\* listener added at connect, if the socket did connect, calls
\* notifySpdzConnectionClosed if it was given.
CloseEvent(s) ==
  /\ sock[s].state \in {"destroyed", "ended", "failed"}
  /\ sock' = Closed(sock, s)
  /\ spdzConnections' = Delete(spdzConnections, sock[s].clientId)
  /\ ret' = [Event("closed", sock[s].clientId, CloseCause(s))
               EXCEPT !.onClosed = ClosedCalls(s)]
  /\ UNCHANGED <<spdzBufferedData, highestClientId, nData, streamVars, rest, boot, polls, ws, input>>

\* The engine closes its side of open socket s: 'end', for which there is no
\* listener.  The socket stays registered and takes no more writes until its
\* 'close' event, before which other handlers may run.
EngineClose(s) ==
  /\ sock[s].state = "open"
  /\ sock' = [sock EXCEPT ![s].state = "ended"]
  /\ ret' = Event("end", sock[s].clientId, "engine")
  /\ UNCHANGED <<spdzConnections, spdzBufferedData, highestClientId, nData, streamVars,
                 rest, boot, polls, ws, input>>

SocketError_Unregisters(s) ==
  /\ sock[s].state = "open"
  /\ sock' = Destroy(sock, s)
  /\ spdzConnections' = Delete(spdzConnections, sock[s].clientId)
  /\ ret' = Event("error", sock[s].clientId, "logged")
  /\ UNCHANGED <<spdzBufferedData, highestClientId, nData, streamVars, rest, boot, polls, ws, input>>

\* 'error' on socket s after its connect: the once('error') listener calls
\* reject on the promise that 'connect' already resolved, which does nothing,
\* and the on('error') listener logs.  The socket that emitted it is destroyed
\* and emits 'close' next.
SocketError(s) ==
  /\ sock[s].state = "open"
  /\ sock' = Destroy(sock, s)
  /\ ret' = Event("error", sock[s].clientId, "logged")
  /\ UNCHANGED <<spdzConnections, spdzBufferedData, highestClientId, nData,
                 streamVars, rest, boot, polls, ws, input>>

\* The engine writes frames whose payload bytes are the socket's number; the
\* transport delivers a whole frame <<1,0,0,0,s>>, or a two-byte frame cut
\* inside its payload (SpecStream covers every other cut).  The chunks that
\* may come next, with the engine's position after each:
EngineChunks(s) ==
  CASE sock[s].engine = "boundary" ->
         { [bytes |-> <<1, 0, 0, 0, s>>, then |-> "boundary"],
           [bytes |-> <<2, 0, 0, 0, s>>, then |-> "payload"] }
    [] sock[s].engine = "payload" -> { [bytes |-> <<s>>, then |-> "boundary"] }

\* 'data' on open socket s.
OnData(s) ==
  /\ sock[s].state = "open"
  /\ nData < MaxData
  /\ \E chunk \in EngineChunks(s) :
       LET r == onData(spdzBufferedData, sock[s].clientId, chunk.bytes)
       IN  /\ spdzBufferedData' = r.spdzBufferedData
           /\ ret' = [Event("data", sock[s].clientId, r.outcome)
                        EXCEPT !.onMessage = r.onMessage]
           /\ sock' = [sock EXCEPT ![s].engine = chunk.then]
  /\ nData' = nData + 1
  /\ UNCHANGED <<spdzConnections, highestClientId, streamVars, rest, boot, polls, ws, input>>

\* The chunks of EngineChunks and, besides, a frame cut inside its header:
\* <<1, 0>> and then <<0, 0, s>>.
EngineChunksAnyCut(s) ==
  CASE sock[s].engine = "boundary" ->
         EngineChunks(s) \cup { [bytes |-> <<1, 0>>, then |-> "header"] }
    [] sock[s].engine = "payload" -> EngineChunks(s)
    [] sock[s].engine = "header" -> { [bytes |-> <<0, 0, s>>, then |-> "boundary"] }

\* 'data' on open socket s when the transport may cut a frame anywhere.  An
\* exception that leaves the handler is logged (logging.js handles uncaught
\* exceptions and does not exit).
OnDataAnyCut(s) ==
  /\ sock[s].state = "open"
  /\ nData < MaxData
  /\ \E chunk \in EngineChunksAnyCut(s) :
       LET r == onData(spdzBufferedData, sock[s].clientId, chunk.bytes)
       IN  /\ spdzBufferedData' = r.spdzBufferedData
           /\ ret' = [Event("data", sock[s].clientId, r.outcome)
                        EXCEPT !.onMessage = r.onMessage]
           /\ sock' = [sock EXCEPT ![s].engine = chunk.then]
  /\ nData' = nData + 1
  /\ UNCHANGED <<spdzConnections, highestClientId, streamVars, rest, boot, polls, ws, input>>

\* closeConnection(clientId) called by the client side.
CloseConnection(id) ==
  /\ LET c == closeConnectionByClient(spdzConnections, sock, spdzBufferedData, id)
     IN  /\ sock' = c.sock
         /\ spdzBufferedData' = c.spdzBufferedData
         /\ ret' = Event("close", id, IF c.result THEN "true" ELSE "false")
  /\ UNCHANGED <<spdzConnections, highestClientId, nData, streamVars, rest, boot, polls, ws, input>>

\* getServerTransmission(clientId) called by the client side.
GetServerTransmission(id) ==
  /\ LET r == getServerTransmission(spdzBufferedData, id)
     IN  /\ spdzBufferedData' = r.spdzBufferedData
         /\ ret' = [Event("get", id, r.outcome) EXCEPT !.value = r.value]
  /\ UNCHANGED <<spdzConnections, sock, highestClientId, nData, streamVars, rest, boot, polls, ws, input>>

Next ==
  \/ \E id \in Ids : SetupConnection(id, NoKey, TRUE, TRUE)
  \/ \E s \in Socks : ConnectOk(s)
  \/ \E s \in Socks : ConnectError(s)
  \/ \E s \in Socks : CloseEvent(s)
  \/ \E s \in Socks : EngineClose(s)
  \/ \E s \in Socks : OnData(s)
  \/ \E id \in Ids : CloseConnection(id)
  \/ \E id \in Ids : GetServerTransmission(id)

Spec == Init /\ [][Next]_vars

\* The same system when the client never calls closeConnection and the engine
\* accepts every connection and never closes one.
NextNoClose ==
  \/ \E id \in Ids : SetupConnection(id, NoKey, TRUE, TRUE)
  \/ \E s \in Socks : ConnectOk(s)
  \/ \E s \in Socks : CloseEvent(s)
  \/ \E s \in Socks : OnData(s)
  \/ \E id \in Ids : GetServerTransmission(id)

SpecNoClose == Init /\ [][NextNoClose]_vars

\* The same system when the engine accepts every connection and never closes
\* one, and the client does call closeConnection.
NextAccepted ==
  \/ \E id \in Ids : SetupConnection(id, NoKey, TRUE, TRUE)
  \/ \E s \in Socks : ConnectOk(s)
  \/ \E s \in Socks : CloseEvent(s)
  \/ \E s \in Socks : OnData(s)
  \/ \E id \in Ids : CloseConnection(id)
  \/ \E id \in Ids : GetServerTransmission(id)

SpecAccepted == Init /\ [][NextAccepted]_vars

\* ------------------------------------------------------- sends to the engine
\* The lists the client side sends: 32 bit integers, and 128 bit integers in
\* base64 (here the value 1, "AAAAAAAAAAAAAAAAAAAAAQ==").
IntegerLists == { <<-2>> }
Base64Lists == { << [i \in 1..22 |-> IF i = 22 THEN 16 ELSE 0] >> }

RECURSIVE WrittenUpTo(_)
WrittenUpTo(s) == IF s = 0 THEN 0 ELSE Len(sock[s].out) + WrittenUpTo(s - 1)
TotalWritten == WrittenUpTo(MaxSockets)

\* sendIntegers(clientId, integerList) called by the client side.
SendIntegers(id, integerList) ==
  /\ TotalWritten < MaxWrites
  /\ \E written \in BOOLEAN :
       LET record == int32ToSpdz(integerList)
           r == sendData(spdzConnections, sock, id, record, written)
       IN  /\ sock' = r.sock
           /\ ret' = [Event("sendIntegers", id, IF r.result THEN "true" ELSE "false")
                        EXCEPT !.value = record]
  /\ UNCHANGED <<spdzConnections, spdzBufferedData, highestClientId, nData, streamVars, rest, boot, polls, ws, input>>

\* sendBigIntegers(clientId, base64InputList) called by the client side.
SendBigIntegers(id, base64InputList) ==
  /\ TotalWritten < MaxWrites
  /\ \E written \in BOOLEAN :
       LET record == base64ToSpdz(base64InputList)
           r == sendData(spdzConnections, sock, id, record, written)
       IN  /\ sock' = r.sock
           /\ ret' = [Event("sendBigIntegers", id, IF r.result THEN "true" ELSE "false")
                        EXCEPT !.value = record]
  /\ UNCHANGED <<spdzConnections, spdzBufferedData, highestClientId, nData, streamVars, rest, boot, polls, ws, input>>

\* The system seen from the sending side: setups, the sockets' events,
\* closeConnection and the two send calls.
NextSend ==
  \/ \E id \in Ids : SetupConnection(id, NoKey, TRUE, TRUE)
  \/ \E s \in Socks : ConnectOk(s)
  \/ \E s \in Socks : ConnectError(s)
  \/ \E s \in Socks : CloseEvent(s)
  \/ \E s \in Socks : EngineClose(s)
  \/ \E id \in Ids : CloseConnection(id)
  \/ \E id \in Ids, list \in IntegerLists : SendIntegers(id, list)
  \/ \E id \in Ids, list \in Base64Lists : SendBigIntegers(id, list)

SpecSend == Init /\ [][NextSend]_vars

\* Setups with and without a well-formed public key, connects, the closes of
\* the connections a setup reset, and a send call.
NextKey ==
  \/ \E id \in Ids, key \in ValidKeys : SetupConnection(id, key, TRUE, TRUE)
  \/ \E s \in Socks : ConnectOk(s)
  \/ \E s \in Socks : CloseEvent(s)
  \/ \E id \in Ids, list \in IntegerLists : SendIntegers(id, list)

SpecKey == Init /\ [][NextKey]_vars

\* Setups with any public key, well-formed or not, and what follows them.
NextAnyKey ==
  \/ \E id \in Ids, key \in Keys : SetupConnection(id, key, TRUE, TRUE)
  \/ \E s \in Socks : ConnectOk(s)
  \/ \E s \in Socks : ConnectError(s)
  \/ \E s \in Socks : CloseEvent(s)
  \/ \E id \in Ids : CloseConnection(id)

SpecAnyKey == Init /\ [][NextAnyKey]_vars

\* The system when ids are generated as well as supplied.
NextIds ==
  \/ \E id \in Ids \cup {Undefined} : SetupConnection(id, NoKey, TRUE, TRUE)
  \/ \E s \in Socks : ConnectOk(s)
  \/ \E s \in Socks : ConnectError(s)
  \/ \E s \in Socks : CloseEvent(s)
  \/ \E s \in Socks : EngineClose(s)
  \/ \E id \in Ids : CloseConnection(id)

SpecIds == Init /\ [][NextIds]_vars

\* setupConnection(clientId) by a caller that sets every id up once.
SetupOnce(id, spdzMessageCallBack, notifySpdzConnectionClosed) ==
  /\ SocksOf(id) = {}
  /\ SetupConnection(id, NoKey, spdzMessageCallBack, notifySpdzConnectionClosed)

\* Connections that the engine closes: one setup for each id, with or without
\* callbacks, connects, the engine ending a connection, the 'close' events,
\* and sends at any moment.  Every socket that ended emits its 'close'.
NextEngine ==
  \/ \E id \in Ids, given \in BOOLEAN : SetupOnce(id, given, given)
  \/ \E s \in Socks : ConnectOk(s)
  \/ \E s \in Socks : EngineClose(s)
  \/ \E s \in Socks : CloseEvent(s)
  \/ \E id \in Ids, list \in IntegerLists : SendIntegers(id, list)

SpecEngine == Init /\ [][NextEngine]_vars /\ \A s \in Socks : WF_vars(CloseEvent(s))

\* ------------------------------------------------------------------ rest_api
\* The waitMs query parameters used: absent (0) and 100.
WaitValues == {0, 100}

ConsumeData_NoContentWhenMissing(id, waitMs) ==
  /\ rest.phase # "waiting"
  /\ rest.n < MaxRequests
  /\ LET r == getServerTransmission(spdzBufferedData, id)
         waits == r.outcome = "null" /\ waitMs > 0
         status == CASE r.outcome = "message" -> 200
                     [] r.outcome = "null" -> 204
                     [] r.outcome = "LookupError" -> 204
     IN  /\ spdzBufferedData' = r.spdzBufferedData
         /\ rest' = [n |-> rest.n + 1,
                     phase |-> IF waits THEN "waiting" ELSE "done",
                     id |-> id, waitMs |-> waitMs, checks |-> 1,
                     removed |-> IF r.outcome = "message" THEN 1 ELSE 0,
                     responses |-> IF waits THEN << >> ELSE <<status>>,
                     uncaught |-> 0]
         /\ ret' = [Event("consume-data", id, IF waits THEN "waiting" ELSE "responded")
                      EXCEPT !.value = r.value]
  /\ UNCHANGED <<spdzConnections, sock, highestClientId, nData, streamVars, boot, polls, ws, input>>

\* POST /:clientId/consume-data?waitMs=..., the handler up to its return: a
\* message is sent with 200; an empty queue is answered 204, or with
\* waitMs > 0 a timer is set and nothing is sent yet; the exception of
\* getServerTransmission goes to the error handler as 404.
ConsumeData(id, waitMs) ==
  /\ rest.phase # "waiting"
  /\ rest.n < MaxRequests
  /\ LET r == getServerTransmission(spdzBufferedData, id)
         waits == r.outcome = "null" /\ waitMs > 0
         status == CASE r.outcome = "message" -> 200
                     [] r.outcome = "null" -> 204
                     [] r.outcome = "LookupError" -> 404
     IN  /\ spdzBufferedData' = r.spdzBufferedData
         /\ rest' = [n |-> rest.n + 1,
                     phase |-> IF waits THEN "waiting" ELSE "done",
                     id |-> id, waitMs |-> waitMs, checks |-> 1,
                     removed |-> IF r.outcome = "message" THEN 1 ELSE 0,
                     responses |-> IF waits THEN << >> ELSE <<status>>,
                     uncaught |-> 0]
         /\ ret' = [Event("consume-data", id, IF waits THEN "waiting" ELSE "responded")
                      EXCEPT !.value = r.value]
  /\ UNCHANGED <<spdzConnections, sock, highestClientId, nData, streamVars, boot, polls, ws, input>>

TimerFires_Reschedules ==
  /\ rest.phase = "waiting"
  /\ LET r == getServerTransmission(spdzBufferedData, rest.id)
         found == r.outcome = "message"
     IN  /\ spdzBufferedData' = r.spdzBufferedData
         /\ rest' = [rest EXCEPT !.phase = IF found THEN "done" ELSE "waiting",
                                 !.checks = @ + 1,
                                 !.removed = IF found THEN @ + 1 ELSE @,
                                 !.responses = IF found THEN Append(@, 200) ELSE @]
         /\ ret' = [Event("timer", rest.id, IF found THEN "responded" ELSE "waiting")
                      EXCEPT !.value = r.value]
  /\ UNCHANGED <<spdzConnections, sock, highestClientId, nData, streamVars, boot, polls, ws, input>>

TimerFires_Throws ==
  /\ rest.phase = "waiting"
  /\ LET r == getServerTransmission(spdzBufferedData, rest.id)
         found == r.outcome = "message"
         threw == r.outcome = "LookupError"
     IN  /\ spdzBufferedData' = r.spdzBufferedData
         /\ rest' = [rest EXCEPT !.phase = "done",
                                 !.checks = @ + 1,
                                 !.removed = IF found THEN @ + 1 ELSE @,
                                 !.responses = IF threw THEN @
                                               ELSE Append(@, IF found THEN 200 ELSE 204),
                                 !.uncaught = IF threw THEN @ + 1 ELSE @]
         /\ ret' = [Event("timer", rest.id, IF threw THEN "LookupError" ELSE "responded")
                      EXCEPT !.value = r.value]
  /\ UNCHANGED <<spdzConnections, sock, highestClientId, nData, streamVars, boot, polls, ws, input>>

\* The timer set by consume-data fires: getServerTransmission again, its
\* exception caught and logged, which leaves spdzData null; then 200 with the
\* message, or 204.
TimerFires ==
  /\ rest.phase = "waiting"
  /\ LET r == getServerTransmission(spdzBufferedData, rest.id)
         found == r.outcome = "message"
     IN  /\ spdzBufferedData' = r.spdzBufferedData
         /\ rest' = [rest EXCEPT !.phase = "done",
                                 !.checks = @ + 1,
                                 !.removed = IF found THEN @ + 1 ELSE @,
                                 !.responses = Append(@, IF found THEN 200 ELSE 204)]
         /\ ret' = [Event("timer", rest.id, "responded") EXCEPT !.value = r.value]
  /\ UNCHANGED <<spdzConnections, sock, highestClientId, nData, streamVars, boot, polls, ws, input>>

\* The REST interface in use: setups, connects, data, closes by either side
\* and consume-data requests; a timer that was set does fire.
NextRest ==
  \/ \E id \in Ids : SetupOnce(id, FALSE, FALSE)
  \/ \E s \in Socks : ConnectOk(s)
  \/ \E s \in Socks : OnData(s)
  \/ \E s \in Socks : CloseEvent(s)
  \/ \E s \in Socks : EngineClose(s)
  \/ \E id \in Ids : CloseConnection(id)
  \/ \E id \in Ids, waitMs \in WaitValues : ConsumeData(id, waitMs)
  \/ TimerFires

SpecRest == Init /\ [][NextRest]_vars /\ WF_vars(TimerFires)

\* Connections that fail after they were established: setups, connects,
\* errors on open sockets and the closes that follow, and data.
NextError ==
  \/ \E id \in Ids : SetupConnection(id, NoKey, TRUE, TRUE)
  \/ \E s \in Socks : ConnectOk(s)
  \/ \E s \in Socks : SocketError(s)
  \/ \E s \in Socks : CloseEvent(s)
  \/ \E s \in Socks : OnData(s)

SpecError == Init /\ [][NextError]_vars

\* Two ids side by side, each set up once: every call and event of a
\* session, with frames cut anywhere.
NextBoth ==
  \/ \E id \in Ids : SetupOnce(id, TRUE, TRUE)
  \/ \E s \in Socks : ConnectOk(s)
  \/ \E s \in Socks : CloseEvent(s)
  \/ \E s \in Socks : EngineClose(s)
  \/ \E s \in Socks : OnDataAnyCut(s)
  \/ \E id \in Ids : CloseConnection(id)
  \/ \E id \in Ids : GetServerTransmission(id)
  \/ \E id \in Ids, list \in IntegerLists : SendIntegers(id, list)

SpecBoth == Init /\ [][NextBoth]_vars

\* =================================================================== claims
Delivered == popped \o data.serverTransmission
AllFed == pos = Len(stream)

\* C1 (as claimed): whatever the partition of a valid stream into chunks, once
\* every chunk has been fed the messages queued (and popped) are exactly those
\* that one storeChunk call on the whole stream queues.
C1_AnyPartitionSameQueue ==
  AllFed => Delivered = storeChunk(NewSpdzServerData(1), stream).data.serverTransmission

\* C3: every change of the queue is either an append at its tail (frames in
\* completion order) or a pop that removes and returns its oldest message.
C3_FifoOrder ==
  [][ LET q == data.serverTransmission
          q2 == data'.serverTransmission
      IN  q2 # q =>
            \/ IsPrefix(q, q2)
            \/ /\ ret'.op = "pop"
               /\ ret'.outcome = "message"
               /\ q # << >>
               /\ ret'.value = Head(q)
               /\ q2 = Tail(q) ]_vars

\* C3 witness: a pop returned a message while a later one is still queued.
C3_Witness ==
  /\ ret.op = "pop" /\ ret.outcome = "message"
  /\ Len(data.serverTransmission) > 0
  /\ data.serverTransmission[1] # ret.value

\* C8 (as claimed): between storeChunk calls expectedBytes is 0 exactly at a
\* frame boundary of the stream, and a pending carryover is shorter than
\* expectedBytes.
C8_ExpectedZeroIffBoundary ==
  /\ (data.expectedBytes = 0) <=> (pos \in Boundaries)
  /\ data.expectedBytes > 0 => Len(data.incompleteTransmission) < data.expectedBytes

\* The messages msgs occur in rx in order, each one right after a 4-byte
\* header whose little-endian value is the message's length.
RECURSIVE FramedIn(_, _, _)
FramedIn(msgs, rx, from) ==
  \/ msgs = << >>
  \/ LET m == Head(msgs)
     IN  \E h \in from..(Len(rx) - 4 - Len(m)) :
           /\ readUInt32LE(SubSeq(rx, h + 1, h + 4)) = Len(m)
           /\ SubSeq(rx, h + 5, h + 4 + Len(m)) = m
           /\ FramedIn(Tail(msgs), rx, h + 4 + Len(m))

\* C9: every message ever queued is the run of bytes that follows a 4-byte
\* header in the bytes received, its length the unsigned little-endian value
\* of that header; no header byte is part of it.
C9_PayloadOnly == FramedIn(Delivered, SubSeq(stream, 1, pos), 0)

\* C9 witness: a message with payload bytes has been queued.
C9_Witness ==
  \E i \in 1..Len(data.serverTransmission) : Len(data.serverTransmission[i]) = MaxPayload

PatternA == pattern.oneEach                           \* one whole frame per chunk
PatternB == Len(frames) = 1 /\ pattern.headerWhole    \* one frame, payload cut
PatternC == pattern.wholeFrames                       \* whole frames coalesced

\* C10: for the three delivery patterns the queue ends up with exactly the
\* payloads of the stream's frames in stream order, one notification each; and
\* while a frame whose payload is cut is still incomplete nothing is queued
\* and nothing is notified.
C10_DeliveryPatterns ==
  /\ (PatternA \/ PatternB \/ PatternC) /\ AllFed =>
        /\ Delivered = frames
        /\ data.emitted = Len(frames)
        /\ ret.outcome # "FramingError"
  /\ PatternB /\ ~AllFed =>
        /\ Delivered = << >>
        /\ data.emitted = 0

\* C10 witness: a single frame whose payload was cut across chunks is complete.
C10_Witness ==
  /\ PatternB /\ ~pattern.wholeFrames /\ AllFed
  /\ Len(frames[1]) = MaxPayload
  /\ data.serverTransmission = frames

\* C11: every completed frame invokes the onMessage listener exactly once,
\* with no argument, and when it is invoked the frame's message is already in
\* the queue, so a pull made inside the callback returns a message.
C11_CallbackAfterAppend ==
  /\ data.listeners = 1
  /\ Len(data.seen) = Len(Delivered)
  /\ data.emitted = Len(data.seen)
  /\ \A i \in 1..Len(data.seen) :
        /\ data.seen[i].args = << >>
        /\ data.seen[i].queued >= 1
        /\ data.seen[i].queued <= i

\* C11 witness: one chunk completed two frames; the listener ran for each,
\* the second time with both messages queued.
C11_Witness ==
  /\ Len(data.seen) >= 2
  /\ data.seen[1].queued = 1
  /\ data.seen[2].queued = 2
  /\ Len(data.serverTransmission) = 2

\* ------------------------------------------------------ connection claims

\* C2 (as claimed): in every reachable state at most one open engine
\* connection exists for any one session id.
C2_AtMostOneOpenPerId == \A id \in Ids : Cardinality(OpenSocksOf(id)) <= 1

\* C4 (as claimed): after two setupConnection calls for one id with no
\* closeConnection in between, once both have settled exactly one connection
\* of that id is open and the one the first call opened has been destroyed.
C4_SecondSetupReplacesFirst ==
  \A id \in Ids :
    (Cardinality(SocksOf(id)) = 2 /\ \A s \in SocksOf(id) : sock[s].state # "connecting") =>
      LET first == CHOOSE x \in SocksOf(id) : \A y \in SocksOf(id) : x <= y
      IN  /\ Cardinality(OpenSocksOf(id)) = 1
          /\ sock[first].state \in {"destroyed", "closed"}

\* The bytes a SpdzServerData holds: those of its queued messages and of its
\* carryover.
BytesHeld(d) ==
  UNION { { d.serverTransmission[i][j] : j \in 1..Len(d.serverTransmission[i]) } :
            i \in 1..Len(d.serverTransmission) } \cup
  { d.incompleteTransmission[j] : j \in 1..Len(d.incompleteTransmission) }

\* C5 (as claimed): the session of a registered connection that was opened by
\* a setupConnection that found the id already connected holds nothing of the
\* old session and never queues bytes read from another connection than its
\* own.  (Every connect registers its socket and creates the id's
\* SpdzServerData in one step, so while an id has both, the registered socket
\* is the one the session was created for.)
C5_NewSessionOnlyOwnBytes ==
  \A id \in DOMAIN spdzBufferedData :
    (Has(spdzConnections, id) /\ sock[spdzConnections[id]].reset) =>
      BytesHeld(spdzBufferedData[id]) \subseteq {spdzConnections[id]}

\* C6: a 'data' event for an id whose session has been removed changes no
\* buffer, creates none, and getServerTransmission for the id still fails with
\* the lookup error.
C6_LateDataDropped ==
  [][ (nData' = nData + 1 /\ ~Has(spdzBufferedData, ret'.id)) =>
        /\ ret'.outcome = "dropped"
        /\ spdzBufferedData' = spdzBufferedData
        /\ getServerTransmission(spdzBufferedData', ret'.id).outcome = "LookupError" ]_vars

\* C6 witness: a chunk was dropped for an id whose session closeConnection
\* removed: the id had two connections, neither opened by a setup that reset
\* an older one, and one of them has been destroyed.
C6_Witness ==
  /\ ret.op = "data" /\ ret.outcome = "dropped"
  /\ ~Has(spdzBufferedData, ret.id)
  /\ Cardinality(SocksOf(ret.id)) = 2
  /\ \A s \in SocksOf(ret.id) : ~sock[s].reset /\ sock[s].state \in {"open", "destroyed"}
  /\ \E s \in SocksOf(ret.id) : sock[s].state = "destroyed"

\* C7: getServerTransmission on an existing empty queue returns null and
\* changes nothing (so it does so again on the next call); on an id with no
\* session it raises the lookup error.
C7_EmptyPopNullMissingThrows ==
  [][ ret'.op = "get" =>
        /\ ~Has(spdzBufferedData, ret'.id) =>
              ret'.outcome = "LookupError" /\ spdzBufferedData' = spdzBufferedData
        /\ (Has(spdzBufferedData, ret'.id)
              /\ spdzBufferedData[ret'.id].serverTransmission = << >>) =>
              ret'.outcome = "null" /\ spdzBufferedData' = spdzBufferedData ]_vars

\* C7 witness: a get on an existing, empty queue returned null.
C7_Witness ==
  /\ ret.op = "get" /\ ret.outcome = "null"
  /\ Has(spdzBufferedData, ret.id)
  /\ spdzBufferedData[ret.id].serverTransmission = << >>

\* A connection of id that has been established and whose 'close' has not
\* been emitted yet.
Established(id) ==
  { s \in SocksOf(id) : sock[s].state \in {"open", "ended", "destroyed"} }

\* C12 (as claimed): checkConnection(id) is true exactly when an engine
\* connection for id has been established and has not yet closed.
C12_CheckConnectionIffLive ==
  \A id \in Ids : checkConnection(spdzConnections, id) <=> Established(id) # {}

\* C13 (as claimed): a send for an id without a live connection returns
\* false and writes nothing; a send for an id with one writes the encoded
\* record once on that connection and returns true.
C13_SendResultTellsSocketExists ==
  [][ ret'.op \in {"sendIntegers", "sendBigIntegers"} =>
        IF OpenSocksOf(ret'.id) = {}
          THEN ret'.outcome = "false" /\ sock' = sock
          ELSE /\ ret'.outcome = "true"
               /\ \E s \in OpenSocksOf(ret'.id) :
                    sock' = [sock EXCEPT ![s].out = Append(@, ret'.value)] ]_vars

\* C14 (as claimed): closeConnection(id) on an id with a live connection
\* returns true, destroys the connection and removes the session's buffer, so
\* that getServerTransmission(id) then fails with the lookup error; on an id
\* with no connection and no buffer it returns false.
C14_CloseDestroysLiveConnection ==
  [][ ret'.op = "close" =>
        /\ OpenSocksOf(ret'.id) # {} =>
              /\ ret'.outcome = "true"
              /\ \A s \in OpenSocksOf(ret'.id) : sock'[s].state = "destroyed"
              /\ getServerTransmission(spdzBufferedData', ret'.id).outcome = "LookupError"
        /\ (Established(ret'.id) = {} /\ ~Has(spdzBufferedData, ret'.id)) =>
              ret'.outcome = "false" ]_vars

\* C15: when the connect of a socket fails, the setup promise is rejected with
\* the transport error, no other connect is started, and neither that step nor
\* the 'close' the failed socket emits later registers a connection or creates
\* a SpdzServerData; the failed socket is never registered and its 'close'
\* calls no onClosed.
C15_ConnectFailureRejects ==
  /\ [](\A id \in DOMAIN spdzConnections : sock[spdzConnections[id]].state # "failed")
  /\ [][ \A s \in Socks :
          /\ (sock[s].state = "connecting" /\ sock'[s].state = "failed") =>
                /\ ret'.op = "connect" /\ ret'.id = sock[s].clientId
                /\ ret'.outcome = "rejected" /\ ret'.err \in TransportErrors
                /\ \A x \in Socks \ {s} : sock'[x] = sock[x]
                /\ spdzConnections' = spdzConnections
                /\ spdzBufferedData' = spdzBufferedData
          /\ sock[s].state = "failed" =>
                /\ sock'[s].state \in {"failed", "closed"}
                /\ sock'[s].state = "closed" =>
                      /\ ret'.op = "closed" /\ ret'.onClosed = 0
                      /\ \A x \in Socks \ {s} : sock'[x] = sock[x]
                      /\ DOMAIN spdzConnections' \subseteq DOMAIN spdzConnections
                      /\ spdzBufferedData' = spdzBufferedData ]_vars

\* C15 witness: the only setup of an id was rejected with a transport error
\* and its socket has closed; the id has no connection and no SpdzServerData.
C15_Witness ==
  /\ ret.op = "closed" /\ ret.outcome = "refused" /\ ret.onClosed = 0
  /\ SocksOf(ret.id) # {}
  /\ \A s \in SocksOf(ret.id) : sock[s].state = "closed"
  /\ ~checkConnection(spdzConnections, ret.id)
  /\ ~Has(spdzBufferedData, ret.id)

\* C16: a socket that is still connecting has had nothing written to it; the
\* connect of a setup that gave a public key writes the key's record as the
\* socket's first data in the step that resolves the setup promise, and
\* whatever is written later comes after it; the connect of a setup without a
\* key writes nothing.
C16_KeyRecordWrittenFirst ==
  [][ \A s \in Socks :
        LET record == hexPublicKeyToBuffer(sock'[s].key.hex).buf
        IN  /\ sock'[s].state = "connecting" => sock'[s].out = << >>
            /\ (sock[s].state = "connecting" /\ sock'[s].state = "open") =>
                  /\ ret'.op = "connect" /\ ret'.outcome = "resolved"
                  /\ sock'[s].out = IF sock'[s].key.defined THEN <<record>> ELSE << >>
            /\ (sock[s].state = "open" /\ sock'[s].state = "open") =>
                  IsPrefix(sock[s].out, sock'[s].out) ]_vars

\* C16 witness: a connection set up with a key has had the key's record and
\* then a record of integers written to it, and one set up without a key is
\* open with nothing written.
C16_Witness ==
  /\ \E s \in Socks :
        /\ sock[s].state = "open" /\ sock[s].key = GoodKey
        /\ sock[s].out = <<hexPublicKeyToBuffer(GoodKey.hex).buf, int32ToSpdz(<<-2>>)>>
  /\ \E s \in Socks :
        sock[s].state = "open" /\ sock[s].key = NoKey /\ sock[s].out = << >>

\* C17 (as claimed): a setup whose public key is not 64 characters long is
\* rejected before any connect is started, so no socket that is connecting or
\* open belongs to a setup with such a key.
C17_BadKeyNeverConnects ==
  \A s \in Socks :
    sock[s].state \in {"connecting", "open"} =>
      (sock[s].key.defined => Len(sock[s].key.hex) = 64)

\* C18 (as claimed): when the engine closes a connection the session's
\* SpdzServerData (queue and onMessage listener) is removed, and the 'close'
\* of a connection that closeConnectionByClient destroyed does not invoke
\* onClosed.
C18_DestroyedSessionDetached ==
  [][ \A s \in Socks :
        /\ (sock[s].state = "ended" /\ sock'[s].state = "closed") =>
              ~Has(spdzBufferedData', sock[s].clientId)
        /\ (sock[s].state = "destroyed" /\ sock'[s].state = "closed") =>
              ret'.onClosed = 0 ]_vars

\* C19: when the engine closes an open connection, nothing is called until
\* the socket's 'close' event, which does come; that event invokes the
\* onClosed callback given at the setup once (none if none was given), and
\* right after it checkConnection of the id is false and a send to the id
\* returns false and writes nothing.  A closed socket emits nothing more.
C19_EngineCloseNotifiesOnce ==
  /\ [][ \A s \in Socks :
          /\ (sock[s].state = "open" /\ sock'[s].state = "ended") =>
                ret'.op = "end" /\ ret'.onClosed = 0
          /\ sock[s].state = "ended" => sock'[s].state \in {"ended", "closed"}
          /\ (sock[s].state = "ended" /\ sock'[s].state = "closed") =>
                /\ ret'.op = "closed" /\ ret'.id = sock[s].clientId
                /\ ret'.onClosed = IF sock[s].notifySpdzConnectionClosed THEN 1 ELSE 0
                /\ ~checkConnection(spdzConnections', sock[s].clientId)
                /\ \A written \in BOOLEAN, list \in IntegerLists :
                      LET r == sendData(spdzConnections', sock', sock[s].clientId,
                                        int32ToSpdz(list), written)
                      IN  ~r.result /\ r.sock = sock'
          /\ sock[s].state = "closed" => sock'[s] = sock[s] ]_vars
  /\ \A s \in Socks : (sock[s].state = "ended") ~> (sock[s].state = "closed")

\* C19 witness: the engine closed a connection that had been set up with an
\* onClosed callback (its SpdzServerData exists); at the socket's 'close'
\* onClosed ran once and the id is not connected.
C19_Witness ==
  /\ ret.op = "closed" /\ ret.outcome = "engine" /\ ret.onClosed = 1
  /\ Has(spdzBufferedData, ret.id)
  /\ \E s \in SocksOf(ret.id) : sock[s].state = "closed"
  /\ ~checkConnection(spdzConnections, ret.id)

\* C20 (as claimed): a setup without an id gets an id from the strictly
\* increasing counter, the id is that of no session alive at the call, and
\* the setup tears nothing down: no socket is destroyed and no SpdzServerData
\* is removed.
C20_GeneratedIdIsFresh ==
  [][ highestClientId' # highestClientId =>
        /\ highestClientId' > highestClientId
        /\ Established(highestClientId') = {}
        /\ ~Has(spdzBufferedData, highestClientId')
        /\ \A s \in Socks : sock[s].state = "open" => sock'[s].state = "open"
        /\ spdzBufferedData' = spdzBufferedData ]_vars

\* C21: an 'error' on an established connection changes neither the registry
\* nor any SpdzServerData and settles no promise; if the socket was the
\* registered one a send for its id still takes the write branch.  Only a
\* 'connect' or a 'close' changes the registry.
C21_ErrorKeepsSession ==
  [][ /\ \A s \in Socks :
            (ret'.op = "error" /\ sock[s].state = "open" /\ sock'[s].state = "destroyed") =>
              /\ ret'.outcome = "logged"
              /\ spdzConnections' = spdzConnections
              /\ spdzBufferedData' = spdzBufferedData
              /\ (Has(spdzConnections, sock[s].clientId)
                    /\ spdzConnections[sock[s].clientId] = s) =>
                    /\ checkConnection(spdzConnections', sock[s].clientId)
                    /\ sendData(spdzConnections', sock', sock[s].clientId,
                                int32ToSpdz(<<-2>>), TRUE).result
      /\ spdzConnections' # spdzConnections => ret'.op \in {"connect", "closed"} ]_vars

\* C21 witness: an 'error' came on the registered connection of an id whose
\* queue holds a message; the id is still registered and the queue is there.
C21_Witness ==
  /\ ret.op = "error"
  /\ Has(spdzConnections, ret.id)
  /\ sock[spdzConnections[ret.id]].state = "destroyed"
  /\ Has(spdzBufferedData, ret.id)
  /\ spdzBufferedData[ret.id].serverTransmission # << >>

\* C22: every step changes the registration, the SpdzServerData and the
\* sockets of at most one id, and a call or event of an id changes those of
\* no other id.
C22_OtherIdsUntouched ==
  [][ LET MapChanged(m, m2, j) ==
            \/ Has(m, j) # Has(m2, j)
            \/ Has(m, j) /\ Has(m2, j) /\ m[j] # m2[j]
          Touched ==
            { j \in Ids :
                \/ MapChanged(spdzConnections, spdzConnections', j)
                \/ MapChanged(spdzBufferedData, spdzBufferedData', j)
                \/ \E s \in Socks :
                      /\ sock'[s] # sock[s]
                      /\ (sock[s].clientId = j \/ sock'[s].clientId = j) }
      IN  /\ Cardinality(Touched) <= 1
          /\ ret'.op # "none" => Touched \subseteq {ret'.id} ]_vars

\* C22 witness: a chunk of id 1 raised the framing error while id 2 has an
\* open registered connection with a record written to it, and its
\* SpdzServerData.
C22_Witness ==
  /\ ret.op = "data" /\ ret.outcome = "FramingError" /\ ret.id = 1
  /\ Has(spdzConnections, 2)
  /\ sock[spdzConnections[2]].state = "open"
  /\ sock[spdzConnections[2]].out # << >>
  /\ Has(spdzBufferedData, 2)

\* C23: a consume-data request calls getServerTransmission at most twice,
\* removes at most one message and sends at most one response; while its
\* timer is pending it has checked once and sent nothing; when it has
\* checked twice it had waitMs > 0 and has sent one response, 200 with the
\* message it removed or 204; and a request whose timer is pending is
\* eventually over.
C23_ConsumeWaitsOnce ==
  /\ [](/\ rest.checks <= 2
        /\ rest.removed <= 1
        /\ Len(rest.responses) <= 1
        /\ rest.uncaught = 0
        /\ rest.phase = "waiting" =>
              rest.checks = 1 /\ rest.responses = << >> /\ rest.removed = 0
        /\ rest.phase = "done" => Len(rest.responses) = 1
        /\ rest.checks = 2 =>
              /\ rest.phase = "done" /\ rest.waitMs > 0
              /\ rest.responses \in {<<200>>, <<204>>}
              /\ rest.responses = <<200>> <=> rest.removed = 1)
  /\ (rest.phase = "waiting" ~> rest.phase = "done")

\* C23 witness: a request found the queue empty, waited, and its re-check
\* removed a message and sent it with 200.
C23_Witness ==
  /\ rest.phase = "done" /\ rest.checks = 2
  /\ rest.responses = <<200>> /\ rest.removed = 1
  /\ ret.op = "timer" /\ ret.value # << >>

\* C24: when the timer of a consume-data request fires and the id has no
\* SpdzServerData any more (the first check found one), the re-check is made,
\* no exception leaves the callback, and the request ends with a 204.
C24_RecheckAfterCloseIs204 ==
  [][ (rest.phase = "waiting" /\ rest' # rest /\ ~Has(spdzBufferedData, rest.id)) =>
        /\ rest'.phase = "done"
        /\ rest'.checks = 2
        /\ rest'.uncaught = 0
        /\ rest'.responses = <<204>>
        /\ spdzBufferedData' = spdzBufferedData ]_vars

\* C24 witness: a request waited, closeConnection removed the session, and
\* the timer's re-check answered 204.
C24_Witness ==
  /\ ret.op = "timer"
  /\ rest.phase = "done" /\ rest.checks = 2 /\ rest.responses = <<204>>
  /\ ~Has(spdzBufferedData, rest.id)
  /\ \E s \in SocksOf(rest.id) : sock[s].state \in {"destroyed", "closed"}

\* C25 (as claimed): whenever a consume-data request checks the queue, at
\* once or from its timer, and the id has no SpdzServerData, the request is
\* answered 404.
C25_MissingBufferAlways404 ==
  [][ (rest'.checks # rest.checks /\ ~Has(spdzBufferedData, rest'.id)) =>
        rest'.responses = <<404>> ]_vars

\* C25 (amended): a consume-data request whose id has no SpdzServerData when
\* the handler checks the queue is answered 404, and a 204 sent by the
\* handler itself means the queue existed and was empty.
C25_MissingBufferFirstCheck404 ==
  [][ rest'.n # rest.n =>
        /\ ~Has(spdzBufferedData, rest'.id) =>
              rest'.phase = "done" /\ rest'.responses = <<404>>
        /\ rest'.responses = <<204>> =>
              /\ Has(spdzBufferedData, rest'.id)
              /\ spdzBufferedData[rest'.id].serverTransmission = << >> ]_vars

\* C25 witness: a request for an id without a session was answered 404.
C25_Witness ==
  /\ ret.op = "consume-data"
  /\ rest.phase = "done" /\ rest.checks = 1 /\ rest.responses = <<404>>
  /\ ~Has(spdzBufferedData, rest.id)

\* Reading buf with expected payload bytes to come (0: a header comes
\* first): how many frames buf completes, and whether a header is then
\* expected where fewer than 4 bytes are left (after a frame that ends buf
\* no header is expected yet).
RECURSIVE HeaderCut(_, _)
HeaderCut(expected, buf) ==
  IF expected = 0 /\ Len(buf) < 4
    THEN [short |-> TRUE, completed |-> 0]
    ELSE LET n == IF expected = 0 THEN readUInt32LE(buf) ELSE expected
             body == IF expected = 0 THEN SubSeq(buf, 5, Len(buf)) ELSE buf
         IN  IF Len(body) < n
               THEN [short |-> FALSE, completed |-> 0]
               ELSE IF Len(body) = n
                 THEN [short |-> FALSE, completed |-> 1]
                 ELSE LET r == HeaderCut(0, SubSeq(body, n + 1, Len(body)))
                      IN  [short |-> r.short, completed |-> r.completed + 1]

\* C26: payloadLengthFromHeader throws for every buffer of fewer than 4
\* bytes and for no longer one; storeChunk throws exactly when, at a frame
\* boundary of what it has read, the chunk or what is left of the chunk has
\* fewer than 4 bytes, and then the frames the chunk completed before that
\* have been appended to the queue and stay there.
C26_ShortHeaderRaises ==
  [][ pos' > pos =>
        LET chunk == SubSeq(stream, pos + 1, pos')
            cut == HeaderCut(data.expectedBytes, data.incompleteTransmission \o chunk)
        IN  /\ (ret'.outcome = "FramingError") <=> cut.short
            /\ IsPrefix(data.serverTransmission, data'.serverTransmission)
            /\ Len(data'.serverTransmission) = Len(data.serverTransmission) + cut.completed
            /\ ret'.onMessage = cut.completed
            /\ \A k \in 0..Len(chunk) :
                  LET h == payloadLengthFromHeader(SubSeq(chunk, 1, k))
                  IN  /\ h.threw <=> k < 4
                      /\ ~h.threw => h.value = readUInt32LE(SubSeq(chunk, 1, k)) ]_vars

\* C26 witness: a chunk held a whole frame and then fewer than 4 bytes;
\* storeChunk threw, and the frame's message is queued.
C26_Witness ==
  /\ ret.op = "chunk" /\ ret.outcome = "FramingError" /\ ret.onMessage = 1
  /\ data.serverTransmission # << >>

\* ------------------------------------------------------ conversion calls
\* Big integers as their bytes, most significant first: no bytes, one and
\* two bytes, 16 bytes (one with a leading zero byte), and 17 and 18 bytes.
CodecValues ==
  { << >>, <<1>>, <<226, 232>>,
    [i \in 1..16 |-> i], [i \in 1..16 |-> IF i = 1 THEN 0 ELSE 255 - i],
    [i \in 1..17 |-> 100 + i], [i \in 1..18 |-> 200 + i] }

\* What a client sends for them: their base64 strings.
Base64Strings == { base64Encode(v) : v \in CodecValues }

Int32Values == {-2147483647 - 1, -2, 0, 67, 2147483647}

\* Public keys as the values of their characters (16: not a hex digit):
\* none, the 14 digits and the key of the conversion tests, GoodKey, 63 and
\* 65 digits, 64 characters none of which is a hex digit, and 64 characters
\* one of which is not.
HexKeyInputs ==
  { << >>, <<9, 0, 0, 15, 10, 12, 8, 9, 10, 10, 14, 11, 3, 4>>,
    [i \in 1..64 |-> IF i % 8 = 0 THEN i \div 8 ELSE 0], GoodKey.hex,
    [i \in 1..63 |-> 10], [i \in 1..65 |-> 10],
    [i \in 1..64 |-> 16], [i \in 1..64 |-> IF i = 10 THEN 16 ELSE 1] }

ListsOf(S) == UNION { [1..n -> S] : n \in 0..MaxList }

Base64Inputs == { [kind |-> "base64", value |-> l] : l \in ListsOf(Base64Strings) }
Int32Inputs == { [kind |-> "int32", value |-> l] : l \in ListsOf(Int32Values) }
HexKeyArguments == { [kind |-> "hexKey", value |-> k] : k \in HexKeyInputs }

\* The argument of one conversion call, before the call.
InitCodec ==
  /\ IdleConn
  /\ frames = << >>
  /\ pos = 0
  /\ data = NewSpdzServerData(0)
  /\ pattern = InitPattern
  /\ popped = << >>
  /\ \/ input \in Base64Inputs
     \/ input \in Int32Inputs
     \/ input \in HexKeyArguments
  /\ ret = NoOp

\* The payload of a record of big integers, cut into its 16-byte fields.
Fields(buf) ==
  [i \in 1..((Len(buf) - 4) \div 16) |-> SubSeq(buf, 4 + 16 * (i - 1) + 1, 4 + 16 * i)]

\* base64ToSpdz(input)
Base64ToSpdz ==
  /\ input.kind = "base64" /\ ret = NoOp
  /\ ret' = [Event("base64ToSpdz", 0, "returned") EXCEPT !.value = base64ToSpdz(input.value)]
  /\ UNCHANGED <<connVars, streamVars, rest, boot, polls, ws, input>>

\* binaryToBase64 of the fields of the record base64ToSpdz returned.
BinaryToBase64 ==
  /\ ret.op = "base64ToSpdz"
  /\ ret' = [Event("binaryToBase64", 0, "returned") EXCEPT
               !.value = binaryToBase64(Fields(ret.value))]
  /\ UNCHANGED <<connVars, streamVars, rest, boot, polls, ws, input>>

\* int32ToSpdz(input)
Int32ToSpdz ==
  /\ input.kind = "int32" /\ ret = NoOp
  /\ ret' = [Event("int32ToSpdz", 0, "returned") EXCEPT !.value = int32ToSpdz(input.value)]
  /\ UNCHANGED <<connVars, streamVars, rest, boot, polls, ws, input>>

\* hexPublicKeyToBuffer(input): the record, or the assertion's error.
HexPublicKeyToBuffer ==
  /\ input.kind = "hexKey" /\ ret = NoOp
  /\ LET r == hexPublicKeyToBuffer(input.value)
     IN  ret' = IF r.threw
                  THEN [Event("hexPublicKeyToBuffer", 0, "AssertionError") EXCEPT
                          !.err = "AssertionError"]
                  ELSE [Event("hexPublicKeyToBuffer", 0, "returned") EXCEPT !.value = r.buf]
  /\ UNCHANGED <<connVars, streamVars, rest, boot, polls, ws, input>>

NextCodec == Base64ToSpdz \/ BinaryToBase64 \/ Int32ToSpdz \/ HexPublicKeyToBuffer

SpecCodec == InitCodec /\ [][NextCodec]_vars

\* A value as base64ToSpdz is said to store it: least significant byte
\* first, cut to 16 bytes or filled up to 16 with zero bytes.
FieldOf(str) ==
  LET v == Reverse(base64Decode(str))
  IN  IF Len(v) >= 16 THEN SubSeq(v, 1, 16) ELSE v \o Zeros(16 - Len(v))

\* C27: in the record base64ToSpdz returns, the 16 bytes from offset
\* 4 + 16 * i hold element i and nothing else: its decoded bytes reversed,
\* cut to 16 bytes when longer and zero filled when shorter.
C27_ElementOwnsItsField ==
  ret.op = "base64ToSpdz" =>
    \A i \in 1..Len(input.value) :
       SubSeq(ret.value, 4 + 16 * (i - 1) + 1, 4 + 16 * i) = FieldOf(input.value[i])

\* The first 4 bytes of buf are count, least significant byte first, and
\* count bytes follow.
HeaderCounts(buf, count) ==
  /\ Len(buf) = count + 4
  /\ \A i \in 1..4 : buf[i] \in 0..255
  /\ readUInt32LE(buf) = count

\* C28: the records base64ToSpdz, int32ToSpdz and hexPublicKeyToBuffer return
\* start with their payload's byte count, little endian in 4 bytes (16, 4
\* times the number of elements, 32), and are 4 bytes longer than it.
C28_HeaderCountsPayload ==
  /\ ret.op = "base64ToSpdz" => HeaderCounts(ret.value, 16 * Len(input.value))
  /\ ret.op = "int32ToSpdz" => HeaderCounts(ret.value, 4 * Len(input.value))
  /\ (ret.op = "hexPublicKeyToBuffer" /\ ret.outcome = "returned") =>
        HeaderCounts(ret.value, 32)

\* C28 witness: int32ToSpdz returned the 12-byte record of two integers.
C28_Witness ==
  /\ ret.op = "int32ToSpdz" /\ Len(input.value) = 2
  /\ SubSeq(ret.value, 1, 4) = <<8, 0, 0, 0>> /\ Len(ret.value) = 12

\* C29: for a list of 16-byte values, binaryToBase64 of the 16-byte fields
\* of the record base64ToSpdz made of their base64 strings returns those
\* strings, in order.
C29_RoundTrip16 ==
  (/\ ret.op = "binaryToBase64"
   /\ \A i \in 1..Len(input.value) : Len(base64Decode(input.value[i])) = 16)
    => ret.value = input.value

\* C29 witness: two different 16-byte values went through both conversions.
C29_Witness ==
  /\ ret.op = "binaryToBase64" /\ Len(input.value) = 2
  /\ input.value[1] # input.value[2]
  /\ \A i \in 1..2 : Len(base64Decode(input.value[i])) = 16
  /\ Len(ret.value) = 2

\* C30: hexPublicKeyToBuffer raises its assertion error for every input that
\* is not 64 hex digits, and for no input that is.
C30_KeyFailsUnlessHex64 ==
  ret.op = "hexPublicKeyToBuffer" =>
    (ret.outcome = "AssertionError"
       <=> ~(Len(input.value) = 64 /\ \A i \in 1..64 : input.value[i] <= 15))

\* Byte k (from 1) of a key given as the values of its hex digits.
KeyByte(key, k) == key[2 * k - 1] * 16 + key[2 * k]

\* C31: for a key of 64 hex digits the 32 payload bytes of the record
\* hexPublicKeyToBuffer returns are the key's eight 4-byte groups in the
\* key's order, each group with its 4 bytes reversed.
C31_GroupsReversedInPlace ==
  (/\ ret.op = "hexPublicKeyToBuffer"
   /\ Len(input.value) = 64 /\ \A i \in 1..64 : input.value[i] <= 15)
    => /\ ret.outcome = "returned" /\ Len(ret.value) = 36
       /\ \A g \in 0..7 : \A j \in 1..4 :
             ret.value[4 + 4 * g + j] = KeyByte(input.value, 4 * g + (5 - j))

\* C31 witness: the key 00000001 00000002 .. 00000008 of the conversion
\* tests became the record 01000000 02000000 .. 08000000.
C31_Witness ==
  /\ ret.op = "hexPublicKeyToBuffer" /\ ret.outcome = "returned"
  /\ input.value = [i \in 1..64 |-> IF i % 8 = 0 THEN i \div 8 ELSE 0]
  /\ SubSeq(ret.value, 5, 12) = <<1, 0, 0, 0, 2, 0, 0, 0>>
  /\ SubSeq(ret.value, 33, 36) = <<8, 0, 0, 0>>

\* ----------------------------------------------------------- spdz_bootstrap
MaxStderr == 1  \* stderr messages of one script

\* Characters as their codes: a Z 7 _ and, outside the accepted set, - space
\* and newline.
WordChars == (48..57) \cup (65..90) \cup (97..122) \cup {95}

\* The spdzProgram arguments tried: undefined, a number, an array, and
\* strings of 0, 1, 19 and 20 characters with and without a character
\* outside the accepted set.
ProgramNames ==
  { [type |-> "undefined", chars |-> << >>], [type |-> "number", chars |-> << >>],
    [type |-> "object", chars |-> <<97>>] }
    \cup { [type |-> "string", chars |-> c] :
             c \in { << >>, <<97>>, <<95>>, <<48, 57>>, <<95, 55, 90>>, <<233>>, <<97, 45>>, <<32>>, <<97, 10>>,
                      [i \in 1..19 |-> 97], [i \in 1..20 |-> 97],
                      [i \in 1..19 |-> IF i = 19 THEN 45 ELSE 97],
                      [i \in 1..20 |-> IF i = 1 THEN 45 ELSE 97] } }

ExitCodes == {0, 1, 127}

\* /^[a-zA-Z0-9_]*$/.test(chars)
MatchesWord(chars) == \A i \in 1..Len(chars) : chars[i] \in WordChars

\* The sanitising of runSPDZFunction: "ok", or the error it rejects with.
SanitiseName_AnyChars(spdzProgram) ==
  IF spdzProgram.type = "string" /\ Len(spdzProgram.chars) > 0 /\ Len(spdzProgram.chars) < 20
    THEN "ok"
    ELSE "SPDZ Program name must be a string less than 20 chars."

SanitiseName(spdzProgram) ==
  IF spdzProgram.type = "string" /\ Len(spdzProgram.chars) > 0 /\ Len(spdzProgram.chars) < 20
    THEN IF ~MatchesWord(spdzProgram.chars)
           THEN "SPDZ Program name not accepted."
           ELSE "ok"
    ELSE "SPDZ Program name must be a string less than 20 chars."

\* runScript(script, ...params): exec of the command line.
runScript(script, params) == [script |-> script, params |-> params]

\* runSPDZFunction(startScript, stopScript, playerId, spdzProgram, force_stop):
\* a rejected promise for a name that is not accepted, else the stop script
\* is started.
RunSPDZFunction(spdzProgram, force_stop) ==
  /\ boot.phase = "idle"
  /\ LET v == SanitiseName(spdzProgram)
     IN  IF v # "ok"
           THEN /\ boot' = [boot EXCEPT !.phase = "invalid", !.name = spdzProgram,
                                        !.settled = <<"rejected">>]
                /\ ret' = [Event("runSPDZFunction", 0, "rejected") EXCEPT !.err = v]
           ELSE /\ boot' = [boot EXCEPT
                              !.phase = "stop", !.name = spdzProgram,
                              !.launched = << runScript("stopScript",
                                                <<"playerId", IF force_stop THEN "Y" ELSE "N">>) >>]
                /\ ret' = Event("runSPDZFunction", 0, "pending")
  /\ UNCHANGED <<connVars, streamVars, rest, polls, ws, input>>

\* A 'data' event of the running script's stderr: the message is kept.
StderrData ==
  /\ boot.phase \in {"stop", "start"}
  /\ boot.stderr < MaxStderr
  /\ boot' = [boot EXCEPT !.stderr = @ + 1]
  /\ ret' = Event("stderr", 0, "logged")
  /\ UNCHANGED <<connVars, streamVars, rest, polls, ws, input>>

StopCloses_StartsAnyway(code) ==
  /\ boot.phase = "stop"
  /\ boot' = [boot EXCEPT !.phase = "start", !.exits = Append(@, code), !.stderr = 0,
                          !.launched = Append(@, runScript("startScript",
                                                    <<"playerId", boot.name.chars>>))]
  /\ ret' = Event("close", 0, "started")
  /\ UNCHANGED <<connVars, streamVars, rest, polls, ws, input>>

\* The stop script's 'close' event: with code 0 its promise resolves and the
\* then callback starts the start script; with any other code the promise,
\* and with it the returned one, rejects with the stderr messages.
StopCloses(code) ==
  /\ boot.phase = "stop"
  /\ IF code = 0
       THEN /\ boot' = [boot EXCEPT
                          !.phase = "start", !.exits = Append(@, code), !.stderr = 0,
                          !.launched = Append(@, runScript("startScript",
                                                    <<"playerId", boot.name.chars>>))]
            /\ ret' = Event("close", 0, "started")
       ELSE /\ boot' = [boot EXCEPT !.phase = "failed", !.exits = Append(@, code),
                                    !.settled = Append(@, "rejected")]
            /\ ret' = [Event("close", 0, "rejected") EXCEPT !.err = "stderr"]
  /\ UNCHANGED <<connVars, streamVars, rest, polls, ws, input>>

\* The start script's 'close' event settles the returned promise.
StartCloses(code) ==
  /\ boot.phase = "start"
  /\ IF code = 0
       THEN /\ boot' = [boot EXCEPT !.phase = "done", !.exits = Append(@, code),
                                    !.settled = Append(@, "resolved")]
            /\ ret' = Event("close", 0, "resolved")
       ELSE /\ boot' = [boot EXCEPT !.phase = "failed", !.exits = Append(@, code),
                                    !.settled = Append(@, "rejected")]
            /\ ret' = [Event("close", 0, "rejected") EXCEPT !.err = "stderr"]
  /\ UNCHANGED <<connVars, streamVars, rest, polls, ws, input>>

NextBoot ==
  \/ \E n \in ProgramNames, f \in BOOLEAN : RunSPDZFunction(n, f)
  \/ StderrData
  \/ \E code \in ExitCodes : StopCloses(code)
  \/ \E code \in ExitCodes : StartCloses(code)

SpecBoot == Init /\ [][NextBoot]_vars

\* A string of 1 to 19 letters, digits and underscores.
AcceptedName(n) ==
  /\ n.type = "string"
  /\ Len(n.chars) \in 1..19
  /\ \A i \in 1..Len(n.chars) : n.chars[i] \in WordChars

\* C32: runSPDZFunction rejects every program name that is not a string of
\* 1 to 19 letters, digits and underscores without starting a script, and
\* for a name that is one it starts the stop script.
C32_NameSanitised ==
  boot.phase # "idle" =>
    IF AcceptedName(boot.name)
      THEN /\ boot.phase # "invalid"
           /\ boot.launched # << >> /\ boot.launched[1].script = "stopScript"
      ELSE /\ boot.phase = "invalid"
           /\ boot.launched = << >> /\ boot.exits = << >>
           /\ boot.settled = <<"rejected">>

\* C32 witness: the name "a-" was rejected and no script was started.
C32_Witness ==
  /\ ret.op = "runSPDZFunction" /\ ret.err = "SPDZ Program name not accepted."
  /\ boot.name.chars = <<97, 45>> /\ boot.launched = << >>
  /\ boot.settled = <<"rejected">>

\* C33: the start script is started only in the step in which the stop
\* script closed with code 0, after the stop script and never otherwise; the
\* returned promise settles once, rejected in the step in which a script
\* closes with another code and resolved only when both closed with code 0.
C33_StopThenStart ==
  [][ /\ boot'.launched # boot.launched /\ boot.launched # << >> =>
           /\ boot.launched = <<runScript("stopScript", boot.launched[1].params)>>
           /\ boot.exits = << >> /\ boot'.exits = <<0>>
           /\ boot'.launched = Append(boot.launched,
                                      runScript("startScript", <<"playerId", boot.name.chars>>))
      /\ boot'.exits # boot.exits =>
           /\ Len(boot'.exits) = Len(boot.exits) + 1
           /\ Len(boot'.exits) <= Len(boot.launched)
           /\ boot'.exits[Len(boot'.exits)] # 0 =>
                 boot'.settled = <<"rejected">> /\ boot'.launched = boot.launched
           /\ boot'.settled = <<"resolved">> <=> boot'.exits = <<0, 0>>
           /\ boot'.exits = <<0>> => boot'.settled = << >> /\ Len(boot'.launched) = 2
      /\ boot.settled # << >> => boot' = boot ]_vars

\* C33 witness: both scripts closed with code 0 and the promise resolved.
C33_Witness ==
  /\ boot.phase = "done" /\ boot.exits = <<0, 0>> /\ boot.settled = <<"resolved">>
  /\ Len(boot.launched) = 2 /\ boot.launched[2].script = "startScript"

\* C34: a registry entry disappears only in the step in which the socket it
\* holds closes; the close of any other socket of the same id leaves it.
C34_UnregisteredOnlyByOwnClose ==
  [][ \A id \in Ids :
        (Has(spdzConnections, id) /\ ~Has(spdzConnections', id)) =>
           /\ sock[spdzConnections[id]].state # "closed"
           /\ sock'[spdzConnections[id]].state = "closed" ]_vars

\* C35: in the step in which a setupConnection promise rejects, the socket
\* of that call is neither open nor registered afterwards and the call has
\* created no SpdzServerData for the id.
C35_RejectedSetupLeavesNothing ==
  [][ (ret'.op = "connect" /\ ret'.outcome = "rejected") =>
        /\ spdzBufferedData' = spdzBufferedData
        /\ \A s \in Socks :
              (sock[s].state = "connecting" /\ sock'[s] # sock[s]) =>
                 /\ sock'[s].state # "open"
                 /\ ~(Has(spdzConnections', ret'.id) /\ spdzConnections'[ret'.id] = s) ]_vars

\* setupConnection(id) by a caller that waits for the promise of its previous
\* call for the id before calling again.
SetupSettled(id) ==
  /\ \A s \in SocksOf(id) : sock[s].state # "connecting"
  /\ SetupConnection(id, NoKey, TRUE, TRUE)

\* The sessions of callers that never have two setups of one id in flight.
NextReset ==
  \/ \E id \in Ids : SetupSettled(id)
  \/ \E s \in Socks : ConnectOk(s)
  \/ \E s \in Socks : ConnectError(s)
  \/ \E s \in Socks : CloseEvent(s)
  \/ \E s \in Socks : EngineClose(s)
  \/ \E s \in Socks : OnData(s)
  \/ \E id \in Ids : CloseConnection(id)

SpecReset == Init /\ [][NextReset]_vars

\* C36: when the connect of a setupConnection call that found the id
\* registered fails, the promise rejects and at that moment the id has no
\* SpdzServerData and no open registered connection: the old session and its
\* queue are not restored.  A SpdzServerData only ever appears at a connect of
\* its id, and empty.
C36_FailedResetLosesSession ==
  [][ /\ \A s \in Socks :
          (sock[s].state = "connecting" /\ sock[s].reset /\ sock'[s].state = "failed") =>
             LET id == sock[s].clientId
             IN  /\ ret'.op = "connect" /\ ret'.id = id /\ ret'.outcome = "rejected"
                 /\ ~Has(spdzBufferedData', id)
                 /\ Has(spdzConnections', id) => sock'[spdzConnections'[id]].state # "open"
      /\ \A id \in Ids :
          (~Has(spdzBufferedData, id) /\ Has(spdzBufferedData', id)) =>
             /\ ret'.op = "connect" /\ ret'.id = id
             /\ spdzBufferedData'[id].serverTransmission = << >> ]_vars

\* C36 witness: a session got data, a second setup for its id destroyed its
\* socket and then failed to connect; the id has no buffer.
C36_Witness ==
  /\ ret.op = "connect" /\ ret.outcome = "rejected"
  /\ nData = 1
  /\ \E s \in Socks : sock[s].clientId = ret.id /\ sock[s].state = "destroyed"
  /\ \E s \in Socks : sock[s].clientId = ret.id /\ sock[s].state = "failed" /\ sock[s].reset
  /\ ~Has(spdzBufferedData, ret.id)

\* ------------------------------------------- overlapping consume-data requests
\* The chunks a 'data' event of socket s may carry: those of
\* EngineChunksAnyCut and two whole frames at once, with the payloads s and
\* s + 10.
EngineChunksBurst(s) ==
  EngineChunksAnyCut(s)
    \cup (IF sock[s].engine = "boundary"
            THEN { [bytes |-> <<1, 0, 0, 0, s, 1, 0, 0, 0, s + 10>>, then |-> "boundary"] }
            ELSE {})

\* 'data' on open socket s of a session set up by the REST interface; the
\* chunk is kept in ret.value.
RestOnData(s) ==
  /\ sock[s].state = "open"
  /\ nData < MaxData
  /\ \E chunk \in EngineChunksBurst(s) :
       LET r == onData(spdzBufferedData, sock[s].clientId, chunk.bytes)
       IN  /\ spdzBufferedData' = r.spdzBufferedData
           /\ ret' = [Event("data", sock[s].clientId, r.outcome)
                        EXCEPT !.onMessage = r.onMessage, !.value = chunk.bytes]
           /\ sock' = [sock EXCEPT ![s].engine = chunk.then]
  /\ nData' = nData + 1
  /\ UNCHANGED <<spdzConnections, highestClientId, streamVars, rest, boot, polls, ws, input>>

\* POST /:clientId/consume-data?waitMs=... while timers of earlier requests
\* may be pending: 200 with the message, 204, 404, or a timer of its own.
ConsumeDataOverlapping(id, waitMs) ==
  /\ LET r == getServerTransmission(spdzBufferedData, id)
         waits == r.outcome = "null" /\ waitMs > 0
         status == CASE r.outcome = "message" -> 200
                     [] r.outcome = "null" -> 204
                     [] r.outcome = "LookupError" -> 404
     IN  /\ waits => Len(polls.timers) < MaxTimers
         /\ spdzBufferedData' = r.spdzBufferedData
         /\ polls' = [timers |-> IF waits THEN Append(polls.timers, id) ELSE polls.timers,
                      taken |-> IF r.outcome = "message"
                                  THEN [polls.taken EXCEPT ![id] = Append(@, r.value)]
                                  ELSE polls.taken]
         /\ ret' = [Event("consume-data", id, IF waits THEN "waiting" ELSE "responded")
                      EXCEPT !.value = r.value, !.err = IF waits THEN "none" ELSE ToString(status)]
  /\ UNCHANGED <<spdzConnections, sock, highestClientId, nData, streamVars, rest, boot,
                 ws, input>>

\* Pending timer k fires (timers set with different waitMs fire in any
\* order): getServerTransmission again, its exception caught, then 200 with
\* the message or 204.
RecheckFires(k) ==
  /\ k \in 1..Len(polls.timers)
  /\ LET id == polls.timers[k]
         r == getServerTransmission(spdzBufferedData, id)
         found == r.outcome = "message"
     IN  /\ spdzBufferedData' = r.spdzBufferedData
         /\ polls' = [timers |-> SubSeq(polls.timers, 1, k - 1)
                                   \o SubSeq(polls.timers, k + 1, Len(polls.timers)),
                      taken |-> IF found THEN [polls.taken EXCEPT ![id] = Append(@, r.value)]
                                         ELSE polls.taken]
         /\ ret' = [Event("timer", id, "responded")
                      EXCEPT !.value = r.value, !.err = IF found THEN "200" ELSE "204"]
  /\ UNCHANGED <<spdzConnections, sock, highestClientId, nData, streamVars, rest, boot,
                 ws, input>>

\* The payloads of the frames that buf completes when read with expected
\* payload bytes to come (0: a header comes first), up to a header of which
\* fewer than 4 bytes are there.
RECURSIVE FramesCut(_, _)
FramesCut(expected, buf) ==
  IF expected = 0 /\ Len(buf) < 4
    THEN << >>
    ELSE LET n == IF expected = 0 THEN readUInt32LE(buf) ELSE expected
             body == IF expected = 0 THEN SubSeq(buf, 5, Len(buf)) ELSE buf
         IN  IF Len(body) < n
               THEN << >>
               ELSE IF Len(body) = n
                 THEN << body >>
                 ELSE << SubSeq(body, 1, n) >> \o FramesCut(0, SubSeq(body, n + 1, Len(body)))

\* One session for each id, with consume-data requests that overlap.
NextPolls ==
  \/ \E id \in Ids : SetupOnce(id, FALSE, FALSE)
  \/ \E s \in Socks : ConnectOk(s)
  \/ \E s \in Socks : RestOnData(s)
  \/ \E s \in Socks : CloseEvent(s)
  \/ \E s \in Socks : EngineClose(s)
  \/ \E id \in Ids : CloseConnection(id)
  \/ \E id \in Ids, waitMs \in WaitValues : ConsumeDataOverlapping(id, waitMs)
  \/ \E k \in 1..MaxTimers : RecheckFires(k)

SpecPolls == Init /\ [][NextPolls]_vars

\* C37: the SpdzServerData of an id starts empty; while it exists, a chunk
\* appends to its queue exactly the frames the chunk completes and every
\* other step leaves unchanged the messages consume-data responses have
\* carried followed by the messages still queued, moving at most one from the
\* queue to a response.  So the frames completed are, each once and in order,
\* those popped and then those queued, however many re-checks are pending.
C37_FramesPoppedOnce ==
  [][ \A id \in Ids :
        LET taken == polls.taken[id]
            after == polls.taken'[id]
        IN  /\ IsPrefix(taken, after) /\ Len(after) <= Len(taken) + 1
            /\ ~Has(spdzBufferedData, id) =>
                  /\ after = taken
                  /\ Has(spdzBufferedData', id) =>
                        taken = << >> /\ spdzBufferedData'[id].serverTransmission = << >>
            /\ (Has(spdzBufferedData, id) /\ Has(spdzBufferedData', id)) =>
                  LET d == spdzBufferedData[id]
                      queue == d.serverTransmission
                      queued == spdzBufferedData'[id].serverTransmission
                  IN  IF nData' # nData /\ ret'.id = id /\ ret'.outcome = "stored"
                        THEN /\ after = taken
                             /\ queued = queue \o FramesCut(d.expectedBytes,
                                                            d.incompleteTransmission \o ret'.value)
                        ELSE after \o queued = taken \o queue ]_vars

\* C37 witness: two re-checks were pending on one session when a chunk
\* completed two frames; the first to fire has carried the first frame, and
\* the second frame is queued for the one still pending.
C37_Witness ==
  /\ ret.op = "timer" /\ ret.err = "200"
  /\ polls.timers = <<ret.id>>
  /\ Len(polls.taken[ret.id]) = 1
  /\ Has(spdzBufferedData, ret.id)
  /\ spdzBufferedData[ret.id].listeners = 0
  /\ Len(spdzBufferedData[ret.id].serverTransmission) = 1
  /\ spdzBufferedData[ret.id].serverTransmission[1] # polls.taken[ret.id][1]

\* --------------------------------------------------------------- socket_api
handleNewSpdzMessage_Peek(d, connected) ==
  IF connected /\ Len(d.serverTransmission) > 0
    THEN [data |-> d, sent |-> <<Head(d.serverTransmission)>>]
    ELSE [data |-> d, sent |-> << >>]

\* handleNewSpdzMessage(spdzEngine, clientSocket), the listener of
\* 'message_from_spdz' in web-socket mode, on the SpdzServerData d of the
\* client: when the web socket is connected, getServerTransmission and, if
\* that is not null, emit('spdz_message', spdzData).
handleNewSpdzMessage(d, connected) ==
  IF connected
    THEN LET r == popServerTransmission(d)
         IN  [data |-> r.data, sent |-> IF r.isNull THEN << >> ELSE <<r.value>>]
    ELSE [data |-> d, sent |-> << >>]

\* storeChunk(chunk) of a SpdzServerData whose listener is
\* handleNewSpdzMessage: the listener runs inside storeTransmission, between
\* the push and the rest of storeChunk.  sent lists what it emitted.
RECURSIVE storeChunkWs(_, _, _)
storeChunkWs(d, chunk, connected) ==
  LET result == extractPayloadFromBuffer(chunk, d.expectedBytes, d.incompleteTransmission)
  IN  IF result.threw
        THEN [data |-> d, threw |-> TRUE, sent |-> << >>]
        ELSE LET d1 == [d EXCEPT !.expectedBytes = result.expectedBytes]
             IN  IF result.expectedBytes = 0
                   THEN LET h == handleNewSpdzMessage(storeTransmission(d1, result.payload),
                                                      connected)
                            d2 == [h.data EXCEPT !.incompleteTransmission = result.remainingChunk]
                        IN  IF Len(d2.incompleteTransmission) > 0
                              THEN LET r == storeChunkWs([d2 EXCEPT !.incompleteTransmission = << >>],
                                                         d2.incompleteTransmission, connected)
                                   IN  [data |-> r.data, threw |-> r.threw,
                                        sent |-> h.sent \o r.sent]
                              ELSE [data |-> d2, threw |-> FALSE, sent |-> h.sent]
                   ELSE [data |-> [d1 EXCEPT !.incompleteTransmission = result.payload],
                         threw |-> FALSE, sent |-> << >>]

\* 'data' on open socket s of a session set up by setupSpdzConnection.
WsOnData(s) ==
  /\ sock[s].state = "open"
  /\ nData < MaxData
  /\ \E chunk \in EngineChunksBurst(s) :
       LET id == sock[s].clientId
       IN  /\ IF Has(spdzBufferedData, id)
                THEN LET r == storeChunkWs(spdzBufferedData[id], chunk.bytes, ws.connected[id])
                     IN  /\ spdzBufferedData' = [spdzBufferedData EXCEPT ![id] = r.data]
                         /\ ws' = [ws EXCEPT !.sent[id] = @ \o r.sent]
                         /\ ret' = [Event("ws-data", id, IF r.threw THEN "FramingError" ELSE "stored")
                                      EXCEPT !.onMessage = r.data.emitted - spdzBufferedData[id].emitted,
                                             !.value = chunk.bytes]
                ELSE /\ ret' = [Event("ws-data", id, "dropped") EXCEPT !.value = chunk.bytes]
                     /\ UNCHANGED <<spdzBufferedData, ws>>
           /\ sock' = [sock EXCEPT ![s].engine = chunk.then]
  /\ nData' = nData + 1
  /\ UNCHANGED <<spdzConnections, highestClientId, streamVars, rest, boot, polls, input>>

\* connectToSpdz from the connected web socket id: setupSpdzConnection
\* rejects when the id is registered and calls setupConnection otherwise
\* (here once for each web socket).
SetupSpdzConnection(id) ==
  /\ ws.connected[id]
  /\ IF checkConnection(spdzConnections, id)
       THEN /\ ret' = [Event("connectToSpdz", id, "rejected") EXCEPT !.err = "already connected"]
            /\ UNCHANGED <<connVars, streamVars, rest, boot, polls, ws, input>>
       ELSE SetupOnce(id, TRUE, TRUE)

\* disconnectFromSpdz from the connected web socket id.
DisconnectFromSpdz(id) ==
  /\ ws.connected[id]
  /\ CloseConnection(id)

\* The client web socket id disconnects; a socket.io socket does not connect
\* again.
WsDisconnect(id) ==
  /\ ws.connected[id]
  /\ ws' = [ws EXCEPT !.connected[id] = FALSE]
  /\ ret' = Event("disconnect", id, "logged")
  /\ UNCHANGED <<connVars, streamVars, rest, boot, polls, input>>

NextWs ==
  \/ \E id \in Ids : SetupSpdzConnection(id)
  \/ \E s \in Socks : ConnectOk(s)
  \/ \E s \in Socks : WsOnData(s)
  \/ \E s \in Socks : CloseEvent(s)
  \/ \E s \in Socks : EngineClose(s)
  \/ \E id \in Ids : DisconnectFromSpdz(id)
  \/ \E id \in Ids : WsDisconnect(id)

SpecWs == Init /\ [][NextWs]_vars

\* C38: in web-socket mode, while the client web socket is connected, the
\* handling of a chunk emits to the client the frames the chunk completes,
\* each once and in order, and leaves the session's queue empty.
C38_PushedWithinChunk ==
  [][ \A id \in Ids :
        (/\ ret'.op = "ws-data" /\ ret'.id = id /\ nData' # nData
         /\ ws.connected[id] /\ Has(spdzBufferedData, id)) =>
           LET d == spdzBufferedData[id]
               done == FramesCut(d.expectedBytes, d.incompleteTransmission \o ret'.value)
           IN  /\ ws'.sent[id] = ws.sent[id] \o done
               /\ ret'.onMessage = Len(done)
               /\ d.serverTransmission = << >>
               /\ spdzBufferedData'[id].serverTransmission = << >> ]_vars

\* C38 witness: one chunk completed two frames and both were emitted to the
\* connected client, in order; the queue is empty.
C38_Witness ==
  /\ ret.op = "ws-data" /\ ret.onMessage = 2
  /\ ws.connected[ret.id]
  /\ Len(ws.sent[ret.id]) = 2
  /\ ws.sent[ret.id] = FramesCut(0, ret.value)
  /\ ws.sent[ret.id][1] # ws.sent[ret.id][2]
  /\ spdzBufferedData[ret.id].serverTransmission = << >>

\* C39: a closeConnection(id) call that returns false leaves the registry,
\* the sockets and every SpdzServerData, that of id included, as they were.
C39_FalseCloseChangesNothing ==
  [][ (ret'.op = "close" /\ ret'.outcome = "false") =>
        /\ spdzConnections' = spdzConnections
        /\ sock' = sock
        /\ spdzBufferedData' = spdzBufferedData ]_vars

\* C40: when storeChunk expects a header and the chunk starts with the
\* header 0, the empty message is queued and notified once, what follows in
\* the chunk is read from a header on, and when nothing follows the object
\* is left expecting a header (expectedBytes 0, no carryover), so that the
\* next chunk is read from a header on.
C40_EmptyFrameCompletesAtOnce ==
  [][ (pos' > pos /\ data.expectedBytes = 0) =>
        LET chunk == data.incompleteTransmission \o SubSeq(stream, pos + 1, pos')
            after == SubSeq(chunk, 5, Len(chunk))
            before == Len(data.serverTransmission)
        IN  /\ data'.serverTransmission = data.serverTransmission \o FramesCut(0, chunk)
            /\ (Len(chunk) >= 4 /\ readUInt32LE(chunk) = 0) =>
                  /\ data'.serverTransmission
                       = data.serverTransmission \o << << >> >> \o FramesCut(0, after)
                  /\ data'.emitted = data.emitted + 1 + Len(FramesCut(0, after))
                  /\ data'.seen[Len(data.seen) + 1] = [args |-> << >>, queued |-> before + 1]
                  /\ after = << >> =>
                        /\ ret'.outcome = "ok" /\ ret'.onMessage = 1
                        /\ data'.expectedBytes = 0
                        /\ data'.incompleteTransmission = << >> ]_vars

\* C40 witness: one chunk held an empty frame and then a frame with a
\* payload; both are queued, the empty message first.
C40_Witness ==
  /\ ret.op = "chunk" /\ ret.outcome = "ok" /\ ret.onMessage = 2
  /\ Len(frames) = 2 /\ frames[1] = << >> /\ frames[2] # << >>
  /\ pos = Len(stream)
  /\ data.serverTransmission = frames
  /\ data.expectedBytes = 0

====
